---- MODULE Spec2Model ----
(***************************************************************************)
(* Screenshot automation: the plan engine (RunPlan and its step handlers), *)
(* the AXe capture provider and the generation coalescer.                  *)
(*                                                                         *)
(* Text is a sequence of one-character strings, so that TrimSpace, ToLower *)
(* and EqualFold are computed and not assumed.  A Go pointer field (to a   *)
(* string or an int) is a sequence of length 0 (nil) or 1 (the value).     *)
(* RunStepResult.DurationMS is not kept: time is the variable elapsed, the *)
(* time since the current step's `start := time.Now()`.                    *)
(***************************************************************************)
EXTENDS Integers, Sequences, FiniteSets, TLC

VARIABLES
    \* ---- plan engine (internal/screenshots/run.go) ----
    plan,        \* the *Plan handed to RunPlan
    fs,          \* how filepath.Abs / os.MkdirAll answer: "ok", "abs", "mkdir"
    pc,          \* position of RunPlan: "RunPlan","loop","exec","sleep","ret","done"
    i,           \* 1-based index of the step of the for loop
    site,        \* the call site the engine is suspended at
    result,      \* the *RunResult: [nil, udid, steps]
    retErr,      \* the error RunPlan returned (NoErr: nil)
    herr,        \* the error the current step handler returned
    calls,       \* the processes started so far, in order
    cancelled,   \* ctx.Done() is closed
    elapsed,     \* ms since the current step started
    deadline,    \* runWaitForStep's deadline, in ms since the step started
    timer,       \* duration of the timer of the waitContext in progress
    woken,       \* which case of waitContext's select was taken
    started,     \* number of step handlers started   (history)
    finished,    \* number of step handlers returned  (history)
    lastPoll,    \* elapsed when the latest describe-ui poll was started, or -1 (history)
    suspCancel,  \* started at the moment ctx was cancelled during a suspension, or -1
    lastOutcome, \* how the latest describe-ui poll or screenshot ended (history)
    \* ---- generation coalescer ----
    inFlight,    \* the atomic: a thread owns the coalescer
    pending,     \* the mutex-guarded pending-run marker
    mu,          \* holder of the mutex, 0 when free
    tpc,         \* position of each thread inside Trigger
    won,         \* per thread: its current Trigger call won the compare-and-swap
    ranSelf,     \* per thread: runs of f executed by its current Trigger call
    triggers,    \* Trigger calls made so far
    runCount,    \* the test's runCount: runs of f started
    concurrent,  \* the test's concurrent counter
    maxConcurrent, \* the test's maxConcurrent
    unserved,    \* threads with a Trigger call not yet followed by a start of f
    duringRun,   \* Trigger calls whose compare-and-swap happened while f was executing
    doneDuring,  \* Trigger calls that were made and returned while f was executing
    callState,   \* per thread: was f executing / was the coalescer owned at its CAS
    \* ---- axeMatchesTarget called on its own ----
    mpc,         \* "call" before the call, "done" after it
    mRoot,       \* the tree json.Unmarshal built from the output of describe-ui
    mStep,       \* the step argument: its id, label and contains
    mMatched,    \* the bool returned
    \* ---- approval ledger (loadApprovals, SaveApprovals) ----
    ledger,      \* the ledger file: absent, or its content
    approvals,   \* the map[string]bool in memory: a set of <<key, bool>>
    firstLoad,   \* the approved keys of the first loadApprovals (history)
    lpc,         \* position of the load / save / load round trip
    lerr,        \* the error loadApprovals or SaveApprovals returned
    \* ---- review pipeline (GenerateReview, ApproveReview) ----
    framed,      \* the framed directory
    raw,         \* the raw directory
    manifestFile, \* <output>/manifest.json
    htmlFile,    \* <output>/index.html
    reviewCalls, \* calls made so far (also the clock of GeneratedAt)
    lastCall,    \* the latest call: request, result, files before it
    \* ---- a function of the review pipeline called on its own ----
    fpc,         \* the function about to be called, "<name> returned" after the call
    farg,        \* its argument
    fret         \* what it returned

planVars == <<plan, fs, pc, i, site, result, retErr, herr, calls, cancelled,
              elapsed, deadline, timer, woken, started, finished, lastPoll, suspCancel,
              lastOutcome>>
coVars == <<inFlight, pending, mu, tpc, won, ranSelf, triggers, runCount,
            concurrent, maxConcurrent, unserved, duringRun, doneDuring, callState>>
\* what the plan engine leaves alone, and what the coalescer leaves alone
matchVars == <<mpc, mRoot, mStep, mMatched>>
ledgerVars == <<ledger, approvals, firstLoad, lpc, lerr>>
reviewVars == <<framed, raw, manifestFile, htmlFile, reviewCalls, lastCall>>
callVars == <<fpc, farg, fret>>
notPlanVars == <<coVars, matchVars, ledgerVars, reviewVars, callVars>>
notCoVars == <<planVars, matchVars, ledgerVars, reviewVars, callVars>>
notMatchVars == <<planVars, coVars, ledgerVars, reviewVars, callVars>>
notLedgerVars == <<planVars, coVars, matchVars, reviewVars, callVars>>
notReviewVars == <<planVars, coVars, matchVars, approvals, firstLoad, lpc, lerr, callVars>>
notCallVars == <<planVars, coVars, matchVars, ledgerVars, reviewVars>>
vars == <<planVars, coVars, matchVars, ledgerVars, reviewVars, callVars>>

----------------------------------------------------------------------------
(* Bounds of the model *)

MaxSteps == 3        \* longest plan

----------------------------------------------------------------------------
(* Text *)

Upper == <<"A","B","C","D","E","F","G","H","I","J","K","L","M",
           "N","O","P","Q","R","S","T","U","V","W","X","Y","Z">>
Lower == <<"a","b","c","d","e","f","g","h","i","j","k","l","m",
           "n","o","p","q","r","s","t","u","v","w","x","y","z">>

IsSpace(c) == c \in {" ", "\t", "\n", "\r"}

RECURSIVE TrimLeft(_)
TrimLeft(s) == IF s # <<>> /\ IsSpace(Head(s)) THEN TrimLeft(Tail(s)) ELSE s

RECURSIVE TrimRight(_)
TrimRight(s) ==
    IF s # <<>> /\ IsSpace(s[Len(s)]) THEN TrimRight(SubSeq(s, 1, Len(s) - 1)) ELSE s

TrimSpace(s) == TrimRight(TrimLeft(s))

LowerOf == [c \in {Upper[k] : k \in 1..26} |->
               Lower[CHOOSE k \in 1..26 : Upper[k] = c]]

LowerChar(c) == IF c \in DOMAIN LowerOf THEN LowerOf[c] ELSE c

ToLower(s) == [k \in 1..Len(s) |-> LowerChar(s[k])]

EqualFold(s, t) == ToLower(s) = ToLower(t)

Contains(s, sub) ==
    \E k \in 0..(Len(s) - Len(sub)) : SubSeq(s, k + 1, k + Len(sub)) = sub

stringValue(p) == IF p = <<>> THEN <<>> ELSE p[1]

intValue(p) == IF p = <<>> THEN 0 ELSE p[1]

hasString(p) == p # <<>> /\ TrimSpace(p[1]) # <<>>

----------------------------------------------------------------------------
(* Step actions *)

ActionLaunch == <<"l","a","u","n","c","h">>
ActionTap == <<"t","a","p">>
ActionType == <<"t","y","p","e">>
ActionKeySequence == <<"k","e","y","_","s","e","q","u","e","n","c","e">>
ActionWait == <<"w","a","i","t">>
ActionWaitFor == <<"w","a","i","t","_","f","o","r">>
ActionScreenshot == <<"s","c","r","e","e","n","s","h","o","t">>

NormalizeAction(a) == TrimSpace(ToLower(a))

----------------------------------------------------------------------------
(* Errors: a chain of layers, outermost first; NoErr is nil.  A layer is    *)
(* what one fmt.Errorf("...: %w") adds.                                     *)

NoErr == <<>>
Layer(k, n, a, c) == [kind |-> k, n |-> n, action |-> a, cmd |-> c]
Wrap(layer, err) == <<layer>> \o err

CanceledErr == <<Layer("context canceled", 0, <<>>, "")>>
ExitErr == <<Layer("exit status", 0, <<>>, "")>>
PlanRequiredErr == <<Layer("plan is required", 0, <<>>, "")>>
VersionErr == <<Layer("unsupported plan version", 0, <<>>, "")>>

IsCancel(err) == \E k \in 1..Len(err) : err[k].kind = "context canceled"

----------------------------------------------------------------------------
(* The accessibility tree: the `any` json.Unmarshal builds.  A node is a    *)
(* string, a number (kept as the text %v prints), a bool, nil, an array or  *)
(* an object (pairs <<key, value>> in ascending key order, keys unique).    *)

Scalar(t, s) == [type |-> t, s |-> s, items |-> <<>>]
StrNode(s) == Scalar("string", s)
NumNode(s) == Scalar("number", s)
NilNode == Scalar("nil", <<>>)
ArrNode(items) == [type |-> "array", s |-> <<>>, items |-> items]
ObjNode(pairs) == [type |-> "object", s |-> <<>>, items |-> pairs]

AXUniqueId == <<"A","X","U","n","i","q","u","e","I","d">>
AXLabel == <<"A","X","L","a","b","e","l">>
AXValue == <<"A","X","V","a","l","u","e">>
ChildrenKey == <<"c","h","i","l","d","r","e","n">>

\* n[key] of a map[string]any: the value, or nil when the key is absent
MapGet(n, key) ==
    IF \E k \in 1..Len(n.items) : n.items[k][1] = key
    THEN n.items[CHOOSE k \in 1..Len(n.items) : n.items[k][1] = key][2]
    ELSE NilNode

\* fmt.Sprintf("%v", v)
RECURSIVE Sprint(_)
RECURSIVE SprintJoin(_, _)
SprintJoin(items, isMap) ==
    IF items = <<>> THEN <<>>
    ELSE LET first == IF isMap
                      THEN Head(items)[1] \o <<":">> \o Sprint(Head(items)[2])
                      ELSE Sprint(Head(items))
         IN  IF Len(items) = 1 THEN first
             ELSE first \o <<" ">> \o SprintJoin(Tail(items), isMap)
Sprint(v) ==
    CASE v.type = "nil" -> <<"<","n","i","l",">">>
      [] v.type = "array" -> <<"[">> \o SprintJoin(v.items, FALSE) \o <<"]">>
      [] v.type = "object" ->
            <<"m","a","p","[">> \o SprintJoin(v.items, TRUE) \o <<"]">>
      [] OTHER -> v.s

toString(v) ==
    IF v.type = "nil" THEN <<>>
    ELSE IF v.type = "string" THEN v.s
    ELSE Sprint(v)

\* nodeMatches without the []any case: arrays are not searched
RECURSIVE MutnodeMatches(_, _, _, _)
MutnodeMatches(node, targetID, targetLabel, targetContains) ==
    CASE node.type = "object" ->
            LET id == toString(MapGet(node, AXUniqueId))
                label == toString(MapGet(node, AXLabel))
                value == toString(MapGet(node, AXValue))
            IN  \/ targetID # <<>> /\ EqualFold(id, targetID)
                \/ targetLabel # <<>> /\ EqualFold(label, targetLabel)
                \/ /\ targetContains # <<>>
                   /\ \/ Contains(ToLower(label), targetContains)
                      \/ Contains(ToLower(value), targetContains)
                \/ \E k \in 1..Len(node.items) :
                      MutnodeMatches(node.items[k][2], targetID, targetLabel, targetContains)
      [] OTHER -> FALSE

RECURSIVE nodeMatches(_, _, _, _)
nodeMatches(node, targetID, targetLabel, targetContains) ==
    CASE node.type = "object" ->
            LET id == toString(MapGet(node, AXUniqueId))
                label == toString(MapGet(node, AXLabel))
                value == toString(MapGet(node, AXValue))
            IN  \/ targetID # <<>> /\ EqualFold(id, targetID)
                \/ targetLabel # <<>> /\ EqualFold(label, targetLabel)
                \/ /\ targetContains # <<>>
                   /\ \/ Contains(ToLower(label), targetContains)
                      \/ Contains(ToLower(value), targetContains)
                \/ \E k \in 1..Len(node.items) :
                      nodeMatches(node.items[k][2], targetID, targetLabel, targetContains)
      [] node.type = "array" ->
            \E k \in 1..Len(node.items) :
                nodeMatches(node.items[k], targetID, targetLabel, targetContains)
      [] OTHER -> FALSE

\* the tail of axeMatchesTarget: the targets of the step, then nodeMatches
MatchesStep(root, step) ==
    nodeMatches(root,
                TrimSpace(stringValue(step.id)),
                TrimSpace(stringValue(step.label)),
                ToLower(TrimSpace(stringValue(step.contains))))

----------------------------------------------------------------------------
(* Plans *)

PlanStep(a, lbl, id, txt, nm, dur, tmo, poll) ==
    [action |-> a, label |-> lbl, id |-> id, contains |-> <<>>, text |-> txt,
     name |-> nm, durationMS |-> dur, timeoutMS |-> tmo, pollIntervalMS |-> poll]

OkText == <<"O","k">>
HomeText == <<"h","o","m","e">>

StepLaunch == PlanStep(ActionLaunch, <<>>, <<>>, <<>>, <<>>, <<>>, <<>>, <<>>)
StepTap == PlanStep(<<"T","a","p"," ">>, <<OkText>>, <<>>, <<>>, <<>>, <<>>, <<>>, <<>>)
StepType == PlanStep(<<" ","T","y","p","e">>, <<>>, <<>>, <<OkText>>, <<>>, <<>>, <<>>, <<>>)
StepKeySequence == PlanStep(ActionKeySequence, <<>>, <<>>, <<>>, <<>>, <<>>, <<>>, <<>>)
StepWait == PlanStep(ActionWait, <<>>, <<>>, <<>>, <<>>, <<2>>, <<>>, <<>>)
StepWaitFor == PlanStep(ActionWaitFor, <<OkText>>, <<>>, <<>>, <<>>, <<>>, <<3>>, <<2>>)
StepScreenshot == PlanStep(ActionScreenshot, <<>>, <<>>, <<>>, <<HomeText>>, <<>>, <<>>, <<>>)
StepSwipe == PlanStep(<<"s","w","i","p","e">>, <<>>, <<>>, <<>>, <<>>, <<>>, <<>>, <<>>)

\* the steps the plans of Spec are made of
StepPool == {StepLaunch, StepTap, StepWait, StepWaitFor, StepScreenshot, StepSwipe}

BundleID == <<"c","o","m",".","a","p","p">>
Booted == <<"b","o","o","t","e","d">>

NilPlan == [nil |-> TRUE, version |-> 0, bundleID |-> <<>>, udid |-> <<>>,
            delay |-> 0, steps |-> <<>>]

PlanVersion == 1

Plans ==
    {NilPlan} \cup
    {[nil |-> FALSE, version |-> v, bundleID |-> BundleID, udid |-> u, delay |-> d,
      steps |-> ss] :
        v \in {PlanVersion, PlanVersion + 1},
        u \in {<<" ","S">>},
        d \in {0, 5},
        ss \in UNION {[1..n -> StepPool] : n \in 0..MaxSteps}}

\* how long one `axe describe-ui` may take, in ms
DescribeDurations == {0, 1}

\* what `axe describe-ui` may print: text that is no JSON, or a tree
BadJSON == Scalar("invalid", <<>>)
DescribeOutputs ==
    << BadJSON,
       ObjNode(<< <<AXLabel, StrNode(<<"R","e","a","d","y">>)>> >>),
       ObjNode(<< <<ChildrenKey,
                    ArrNode(<< ObjNode(<< <<AXLabel, StrNode(<<"o","K">>)>> >>) >>)>> >>),
       ArrNode(<< NumNode(<<"1">>), NilNode >>) >>

----------------------------------------------------------------------------
(* RunPlan *)

NilResult == [nil |-> TRUE, bundleID |-> <<>>, udid |-> <<>>, steps |-> <<>>]

validatePlan(p) == IF p.version # PlanVersion THEN VersionErr ELSE NoErr

EffectiveUDID(u) == IF TrimSpace(u) = <<>> THEN Booted ELSE TrimSpace(u)

Call(cmd, op, udid, flag, arg) ==
    [cmd |-> cmd, op |-> op, step |-> i, udid |-> udid, flag |-> flag, arg |-> arg]

CmdErr(cmd, cause) == Wrap(Layer("command", 0, <<>>, cmd), cause)

\* how a started process may end: exit 0, exit non-zero, or killed by ctx
ExecOutcomes == IF cancelled THEN {"ok", "exit", "canceled"} ELSE {"ok", "exit"}
OutcomeErr(cmd, o) ==
    CASE o = "ok" -> NoErr
      [] o = "exit" -> CmdErr(cmd, ExitErr)
      [] OTHER -> CmdErr(cmd, CanceledErr)

\* The next three say where the engine goes next; each sets pc, site, herr,
\* calls, timer and woken.

\* a step handler returns err
HandlerReturn(err) ==
    /\ pc' = "ret"
    /\ herr' = err
    /\ UNCHANGED <<site, calls, timer, woken>>

\* exec.CommandContext(ctx, ...) is started: refused when ctx is already done
runExternalOutput(s, call) ==
    IF cancelled
    THEN HandlerReturn(CmdErr(call.cmd, CanceledErr))
    ELSE /\ pc' = "exec"
         /\ site' = s
         /\ calls' = Append(calls, call)
         /\ UNCHANGED <<herr, timer, woken>>

\* waitContext(ctx, d) reaches its select
waitContext(s, d) ==
    /\ pc' = "sleep"
    /\ site' = s
    /\ timer' = d
    /\ woken' \in IF ~cancelled THEN {"none"}
                  ELSE IF d <= 0 THEN {"ctx", "timer"} ELSE {"ctx"}
    /\ UNCHANGED <<herr, calls>>

DefaultTimeoutMS == 15000
DefaultPollIntervalMS == 400

\* the defaults applied only to a nil pointer
MutEffectiveTimeout(step) ==
    IF step.timeoutMS = <<>> THEN DefaultTimeoutMS ELSE intValue(step.timeoutMS)

EffectiveTimeout(step) ==
    IF intValue(step.timeoutMS) <= 0 THEN DefaultTimeoutMS ELSE intValue(step.timeoutMS)

EffectivePoll(step) ==
    IF intValue(step.pollIntervalMS) <= 0
    THEN DefaultPollIntervalMS
    ELSE intValue(step.pollIntervalMS)

TimeoutErr(ms) == <<Layer("wait_for timed out", ms, <<>>, "")>>
ParseErr == <<Layer("axe describe-ui: parse JSON", 0, <<>>, "")>>
StatErr == <<Layer("axe: screenshot not found", 0, <<>>, "")>>
UnsupportedErr(a) == <<Layer("unsupported action", 0, a, "")>>

StepActionOf(k) == NormalizeAction(plan.steps[k].action)

\* runTapStep that looks at the id before the label
IdFirstrunTapStep(step, udid) ==
    IF hasString(step.id)
    THEN runExternalOutput("runExternal",
                           Call("axe", "tap", udid, "--id", stringValue(step.id)))
    ELSE IF hasString(step.label)
    THEN runExternalOutput("runExternal",
                           Call("axe", "tap", udid, "--label", stringValue(step.label)))
    ELSE runExternalOutput("runExternal", Call("axe", "tap", udid, "-x", <<>>))

\* runTapStep: the selector is picked once, label, then id, then coordinates
runTapStep(step, udid) ==
    IF hasString(step.label)
    THEN runExternalOutput("runExternal",
                           Call("axe", "tap", udid, "--label", stringValue(step.label)))
    ELSE IF hasString(step.id)
    THEN runExternalOutput("runExternal",
                           Call("axe", "tap", udid, "--id", stringValue(step.id)))
    ELSE runExternalOutput("runExternal", Call("axe", "tap", udid, "-x", <<>>))

\* axeMatchesTarget starts `axe describe-ui`
axeMatchesTarget(udid) ==
    runExternalOutput("describe-ui", Call("axe", "describe-ui", udid, "", <<>>))

\* runWaitForStep up to its first poll; the handler starts at elapsed = 0
runWaitForStep(step, udid) ==
    /\ deadline' = EffectiveTimeout(step)
    /\ axeMatchesTarget(udid)

\* the screenshot step hands the plan's bundle id to Capture
MutCaptureRequestBundleID(bundleID) == bundleID

\* the BundleID of the CaptureRequest a screenshot step builds
CaptureRequestBundleID(bundleID) == <<>>

\* Capture that tests the bundle id as given, without trimming it
UntrimmedCapture(req) ==
    IF req.bundleID # <<>>
    THEN runExternalOutput("capture-launch",
             Call("xcrun", "launch", EffectiveUDID(req.udid), "", TrimSpace(req.bundleID)))
    ELSE runExternalOutput("screenshot",
             Call("axe", "screenshot", EffectiveUDID(req.udid), "--output", req.name))

\* AXeProvider.Capture up to its first process
Capture(req) ==
    IF TrimSpace(req.bundleID) # <<>>
    THEN runExternalOutput("capture-launch",
             Call("xcrun", "launch", EffectiveUDID(req.udid), "", TrimSpace(req.bundleID)))
    ELSE runExternalOutput("screenshot",
             Call("axe", "screenshot", EffectiveUDID(req.udid), "--output", req.name))

runStep(action, step, bundleID, udid) ==
    CASE action = ActionLaunch ->
            /\ runExternalOutput("runExternal", Call("xcrun", "launch", udid, "", bundleID))
            /\ UNCHANGED deadline
      [] action = ActionTap ->
            /\ runTapStep(step, udid)
            /\ UNCHANGED deadline
      [] action = ActionType ->
            /\ runExternalOutput("runExternal",
                                 Call("axe", "type", udid, "", stringValue(step.text)))
            /\ UNCHANGED deadline
      [] action = ActionKeySequence ->
            /\ runExternalOutput("runExternal",
                                 Call("axe", "key-sequence", udid, "--keycodes", <<>>))
            /\ UNCHANGED deadline
      [] action = ActionWait ->
            /\ waitContext("wait", intValue(step.durationMS))
            /\ UNCHANGED deadline
      [] action = ActionWaitFor -> runWaitForStep(step, udid)
      [] action = ActionScreenshot ->
            /\ Capture([bundleID |-> CaptureRequestBundleID(bundleID), udid |-> udid,
                        name |-> stringValue(step.name)])
            /\ UNCHANGED deadline
      [] OTHER ->
            /\ HandlerReturn(UnsupportedErr(action))
            /\ UNCHANGED deadline

\* RunPlan that does not return on a validatePlan error
MutRunPlanValidate ==
    /\ pc = "RunPlan"
    /\ IF plan.nil
       THEN pc' = "done" /\ retErr' = PlanRequiredErr /\ UNCHANGED <<result, i>>
       ELSE IF fs = "abs"
       THEN /\ pc' = "done"
            /\ retErr' = <<Layer("resolve output dir", 0, <<>>, "")>>
            /\ UNCHANGED <<result, i>>
       ELSE IF fs = "mkdir"
       THEN /\ pc' = "done"
            /\ retErr' = <<Layer("create output dir", 0, <<>>, "")>>
            /\ UNCHANGED <<result, i>>
       ELSE /\ result' = [nil |-> FALSE, bundleID |-> plan.bundleID,
                          udid |-> EffectiveUDID(plan.udid), steps |-> <<>>]
            /\ i' = 1
            /\ pc' = "loop"
            /\ UNCHANGED retErr
    /\ UNCHANGED <<notPlanVars, lastOutcome, plan, fs, site, herr, calls, cancelled, elapsed, deadline,
                   timer, woken, started, finished, lastPoll, suspCancel>>

\* RunPlan, lines 35-63: the checks before the first step
RunPlanValidate ==
    /\ pc = "RunPlan"
    /\ IF plan.nil
       THEN pc' = "done" /\ retErr' = PlanRequiredErr /\ UNCHANGED <<result, i>>
       ELSE IF validatePlan(plan) # NoErr
       THEN pc' = "done" /\ retErr' = validatePlan(plan) /\ UNCHANGED <<result, i>>
       ELSE IF fs = "abs"
       THEN /\ pc' = "done"
            /\ retErr' = <<Layer("resolve output dir", 0, <<>>, "")>>
            /\ UNCHANGED <<result, i>>
       ELSE IF fs = "mkdir"
       THEN /\ pc' = "done"
            /\ retErr' = <<Layer("create output dir", 0, <<>>, "")>>
            /\ UNCHANGED <<result, i>>
       ELSE /\ result' = [nil |-> FALSE, bundleID |-> plan.bundleID,
                          udid |-> EffectiveUDID(plan.udid), steps |-> <<>>]
            /\ i' = 1
            /\ pc' = "loop"
            /\ UNCHANGED retErr
    /\ UNCHANGED <<notPlanVars, lastOutcome, plan, fs, site, herr, calls, cancelled, elapsed, deadline, timer,
                   woken, started, finished, lastPoll, suspCancel>>

\* RunPlan, lines 65-74 and 92: the head of the loop starts the next handler
RunPlanLoop ==
    /\ pc = "loop"
    /\ IF i > Len(plan.steps)
       THEN /\ pc' = "done"
            /\ retErr' = NoErr
            /\ UNCHANGED <<site, herr, calls, timer, woken, elapsed, deadline,
                           started, lastPoll>>
       ELSE /\ started' = started + 1
            /\ elapsed' = 0
            /\ runStep(StepActionOf(i), plan.steps[i], plan.bundleID, result.udid)
            /\ lastPoll' = IF pc' = "exec" /\ site' = "describe-ui" THEN 0 ELSE -1
            /\ UNCHANGED retErr
    /\ UNCHANGED <<notPlanVars, lastOutcome, plan, fs, i, result, cancelled, finished, suspCancel>>

LastCmd == calls[Len(calls)].cmd

\* runExternal returns to runStep (launch, tap, type, key_sequence)
ExternalReturn ==
    /\ pc = "exec" /\ site = "runExternal"
    /\ \E o \in ExecOutcomes : HandlerReturn(OutcomeErr(LastCmd, o))
    /\ UNCHANGED <<notPlanVars, lastOutcome, plan, fs, i, result, retErr, cancelled, elapsed, deadline,
                   started, finished, lastPoll, suspCancel>>

\* the deadline test inverted
MutDeadlinePassed(now, dl) == ~(now > dl)

\* runWaitForStep's deadline test: time.Now().After(deadline)
DeadlinePassed(now, dl) == now > dl

\* what one poll found: the process failed, printed no JSON, or printed a tree
\* that holds the target or not
PollOutcome(o, k, step) ==
    IF o # "ok" THEN o
    ELSE IF DescribeOutputs[k] = BadJSON THEN "bad"
    ELSE IF MatchesStep(DescribeOutputs[k], step) THEN "match"
    ELSE "miss"

\* DescribeUIReturn that tests the deadline before it looks at the match
DeadlineFirstDescribeUIReturn ==
    /\ pc = "exec" /\ site = "describe-ui"
    /\ \E o \in ExecOutcomes, ms \in DescribeDurations, k \in 1..Len(DescribeOutputs) :
          /\ elapsed' = elapsed + ms
          /\ lastOutcome' = PollOutcome(o, k, plan.steps[i])
          /\ IF o # "ok" THEN HandlerReturn(OutcomeErr(LastCmd, o))
             ELSE IF DescribeOutputs[k] = BadJSON THEN HandlerReturn(ParseErr)
             ELSE IF DeadlinePassed(elapsed', deadline)
             THEN HandlerReturn(TimeoutErr(EffectiveTimeout(plan.steps[i])))
             ELSE IF MatchesStep(DescribeOutputs[k], plan.steps[i]) THEN HandlerReturn(NoErr)
             ELSE waitContext("poll", EffectivePoll(plan.steps[i]))
    /\ UNCHANGED <<notPlanVars, plan, fs, i, result, retErr, cancelled, deadline, started,
                   finished, lastPoll, suspCancel>>

\* DescribeUIReturn that takes output it cannot parse for a tree without the
\* target, and polls again
MutDescribeUIReturn ==
    /\ pc = "exec" /\ site = "describe-ui"
    /\ \E o \in ExecOutcomes, ms \in DescribeDurations, k \in 1..Len(DescribeOutputs) :
          /\ elapsed' = elapsed + ms
          /\ lastOutcome' = PollOutcome(o, k, plan.steps[i])
          /\ IF o # "ok" THEN HandlerReturn(OutcomeErr(LastCmd, o))
             ELSE IF /\ DescribeOutputs[k] # BadJSON
                     /\ MatchesStep(DescribeOutputs[k], plan.steps[i])
             THEN HandlerReturn(NoErr)
             ELSE IF DeadlinePassed(elapsed', deadline)
             THEN HandlerReturn(TimeoutErr(EffectiveTimeout(plan.steps[i])))
             ELSE waitContext("poll", EffectivePoll(plan.steps[i]))
    /\ UNCHANGED <<notPlanVars, plan, fs, i, result, retErr, cancelled, deadline, started,
                   finished, lastPoll, suspCancel>>

\* runWaitForStep, lines 140-153: one poll has returned
DescribeUIReturn ==
    /\ pc = "exec" /\ site = "describe-ui"
    /\ \E o \in ExecOutcomes, ms \in DescribeDurations, k \in 1..Len(DescribeOutputs) :
          /\ elapsed' = elapsed + ms
          /\ lastOutcome' = PollOutcome(o, k, plan.steps[i])
          /\ IF o # "ok" THEN HandlerReturn(OutcomeErr(LastCmd, o))
             ELSE IF DescribeOutputs[k] = BadJSON THEN HandlerReturn(ParseErr)
             ELSE IF MatchesStep(DescribeOutputs[k], plan.steps[i]) THEN HandlerReturn(NoErr)
             ELSE IF DeadlinePassed(elapsed', deadline)
             THEN HandlerReturn(TimeoutErr(EffectiveTimeout(plan.steps[i])))
             ELSE waitContext("poll", EffectivePoll(plan.steps[i]))
    /\ UNCHANGED <<notPlanVars, plan, fs, i, result, retErr, cancelled, deadline, started,
                   finished, lastPoll, suspCancel>>

\* AXeProvider.Capture, lines 24-31: the launch has returned
CaptureLaunchReturn ==
    /\ pc = "exec" /\ site = "capture-launch"
    /\ \E o \in ExecOutcomes :
          IF o # "ok" THEN HandlerReturn(OutcomeErr(LastCmd, o))
          ELSE runExternalOutput("screenshot",
                   Call("axe", "screenshot", calls[Len(calls)].udid, "--output",
                        stringValue(plan.steps[i].name)))
    /\ UNCHANGED <<notPlanVars, lastOutcome, plan, fs, i, result, retErr, cancelled, elapsed, deadline,
                   started, finished, lastPoll, suspCancel>>

\* how `axe screenshot` ended and whether it left the file at pngPath
ShotOutcome(o, exists) ==
    IF o # "ok" THEN o ELSE IF exists THEN "written" ELSE "unwritten"

\* AXeProvider.Capture, lines 32-40: the screenshot has returned, then os.Stat
ScreenshotReturn ==
    /\ pc = "exec" /\ site = "screenshot"
    /\ \E o \in ExecOutcomes, exists \in BOOLEAN :
          /\ lastOutcome' = ShotOutcome(o, exists)
          /\ IF o # "ok" THEN HandlerReturn(OutcomeErr(LastCmd, o))
             ELSE IF ~exists THEN HandlerReturn(StatErr)
             ELSE HandlerReturn(NoErr)
    /\ UNCHANGED <<notPlanVars, plan, fs, i, result, retErr, cancelled, elapsed, deadline,
                   started, finished, lastPoll, suspCancel>>

\* the timer of the waitContext in progress fires first
TimerFire ==
    /\ pc = "sleep" /\ woken = "none"
    /\ woken' = "timer"
    /\ elapsed' = elapsed + (IF timer > 0 THEN timer ELSE 0)
    /\ UNCHANGED <<notPlanVars, lastOutcome, plan, fs, pc, i, site, result, retErr, herr, calls, cancelled,
                   deadline, timer, started, finished, lastPoll, suspCancel>>

\* the caller cancels ctx; a select blocked in waitContext takes the ctx case
Cancel ==
    /\ pc # "done" /\ ~cancelled
    /\ cancelled' = TRUE
    /\ IF pc = "sleep" /\ woken = "none"
       THEN woken' = "ctx" /\ suspCancel' = started
       ELSE UNCHANGED <<woken, suspCancel>>
    /\ UNCHANGED <<notPlanVars, lastOutcome, plan, fs, pc, i, site, result, retErr, herr, calls, elapsed,
                   deadline, timer, started, finished, lastPoll>>

\* waitContext that only watches its timer
MutwaitContextErr(w) == NoErr

\* what waitContext returns
waitContextErr(w) == IF w = "ctx" THEN CanceledErr ELSE NoErr

\* WaitContextReturn that reports an interrupted delay as a failure of the step
StepWrappedWaitContextReturn ==
    /\ pc = "sleep" /\ woken # "none"
    /\ LET err == waitContextErr(woken) IN
       CASE site = "wait" ->
               /\ HandlerReturn(err)
               /\ UNCHANGED <<i, retErr, lastPoll>>
         [] site = "poll" ->
               /\ IF err # NoErr THEN HandlerReturn(err)
                  ELSE axeMatchesTarget(result.udid)
               /\ lastPoll' = IF pc' = "exec" THEN elapsed ELSE lastPoll
               /\ UNCHANGED <<i, retErr>>
         [] OTHER ->
               /\ IF err # NoErr
                  THEN /\ pc' = "done"
                       /\ retErr' = Wrap(Layer("step", i, StepActionOf(i), ""), err)
                       /\ UNCHANGED i
                  ELSE pc' = "loop" /\ i' = i + 1 /\ UNCHANGED retErr
               /\ UNCHANGED <<site, herr, calls, timer, woken, lastPoll>>
    /\ UNCHANGED <<notPlanVars, lastOutcome, plan, fs, result, cancelled, elapsed, deadline, started, finished,
                   suspCancel>>

\* waitContext returns to its caller: runStep (wait), runWaitForStep (the poll
\* sleep) or RunPlan (the post-action delay)
WaitContextReturn ==
    /\ pc = "sleep" /\ woken # "none"
    /\ LET err == waitContextErr(woken) IN
       CASE site = "wait" ->
               /\ HandlerReturn(err)
               /\ UNCHANGED <<i, retErr, lastPoll>>
         [] site = "poll" ->
               /\ IF err # NoErr THEN HandlerReturn(err)
                  ELSE axeMatchesTarget(result.udid)
               /\ lastPoll' = IF pc' = "exec" THEN elapsed ELSE lastPoll
               /\ UNCHANGED <<i, retErr>>
         [] OTHER ->
               /\ IF err # NoErr
                  THEN pc' = "done" /\ retErr' = err /\ UNCHANGED i
                  ELSE pc' = "loop" /\ i' = i + 1 /\ UNCHANGED retErr
               /\ UNCHANGED <<site, herr, calls, timer, woken, lastPoll>>
    /\ UNCHANGED <<notPlanVars, lastOutcome, plan, fs, result, cancelled, elapsed, deadline, started, finished,
                   suspCancel>>

StepResult(status, err) ==
    [index |-> i, action |-> StepActionOf(i), status |-> status, error |-> err]

\* StepFailed with the `return` lost: the loop goes on to the next step
MutStepFailed ==
    /\ result' = [result EXCEPT !.steps = Append(@, StepResult("error", herr))]
    /\ retErr' = Wrap(Layer("step", i, StepActionOf(i), ""), herr)
    /\ pc' = "loop"
    /\ i' = i + 1
    /\ UNCHANGED <<site, timer, woken>>

\* RunPlan, lines 74-80: the handler failed
StepFailed ==
    /\ result' = [result EXCEPT !.steps = Append(@, StepResult("error", herr))]
    /\ retErr' = Wrap(Layer("step", i, StepActionOf(i), ""), herr)
    /\ pc' = "done"
    /\ UNCHANGED <<i, site, timer, woken>>

\* StepSucceeded without the post-action delay
MutStepSucceeded ==
    /\ result' = [result EXCEPT !.steps = Append(@, StepResult("ok", NoErr))]
    /\ UNCHANGED retErr
    /\ pc' = "loop"
    /\ i' = i + 1
    /\ UNCHANGED <<site, timer, woken>>

\* StepSucceeded that skips the delay after the last step of the plan
StepSucceededNoFinalDelay ==
    /\ result' = [result EXCEPT !.steps = Append(@, StepResult("ok", NoErr))]
    /\ UNCHANGED retErr
    /\ IF /\ plan.delay > 0
          /\ i < Len(plan.steps)
          /\ StepActionOf(i) # ActionWait
          /\ StepActionOf(i) # ActionWaitFor
       THEN /\ waitContext("delay", plan.delay)
            /\ UNCHANGED i
       ELSE /\ pc' = "loop"
            /\ i' = i + 1
            /\ UNCHANGED <<site, timer, woken>>

\* RunPlan, lines 81-90: the handler succeeded
StepSucceeded ==
    /\ result' = [result EXCEPT !.steps = Append(@, StepResult("ok", NoErr))]
    /\ UNCHANGED retErr
    /\ IF /\ plan.delay > 0
          /\ StepActionOf(i) # ActionWait
          /\ StepActionOf(i) # ActionWaitFor
       THEN /\ waitContext("delay", plan.delay)
            /\ UNCHANGED i
       ELSE /\ pc' = "loop"
            /\ i' = i + 1
            /\ UNCHANGED <<site, timer, woken>>

\* RunPlan, lines 74-90: the handler of step i has returned
RunPlanStepDone ==
    /\ pc = "ret"
    /\ finished' = finished + 1
    /\ IF herr # NoErr THEN StepFailed ELSE StepSucceeded
    /\ UNCHANGED <<notPlanVars, lastOutcome, plan, fs, herr, calls, cancelled, elapsed, deadline, started,
                   lastPoll, suspCancel>>

\* RunPlan is called
PlanStart ==
    /\ pc = "RunPlan"
    /\ i = 0
    /\ site = ""
    /\ result = NilResult
    /\ retErr = NoErr
    /\ herr = NoErr
    /\ calls = <<>>
    /\ cancelled = FALSE
    /\ elapsed = 0
    /\ deadline = 0
    /\ timer = 0
    /\ woken = "none"
    /\ started = 0
    /\ finished = 0
    /\ lastPoll = -1
    /\ suspCancel = -1
    /\ lastOutcome = "none"

PlanInit ==
    /\ plan \in Plans
    /\ fs \in {"ok", "abs", "mkdir"}
    /\ PlanStart

PlanNext ==
    \/ RunPlanValidate
    \/ RunPlanLoop
    \/ ExternalReturn
    \/ DescribeUIReturn
    \/ ScreenshotReturn
    \/ TimerFire
    \/ Cancel
    \/ WaitContextReturn
    \/ RunPlanStepDone

----------------------------------------------------------------------------
(* The generation coalescer.  Trigger is a compare-and-swap on the in-flight *)
(* atomic; the loser sets the pending marker under the mutex and returns,    *)
(* the winner runs f, then re-checks the marker under the mutex and either   *)
(* clears it and runs again or releases ownership.  f is the function of     *)
(* TestGenerationCoalescer_TriggersSerialRuns, which counts its runs.        *)

NThreads == 3        \* threads calling Trigger
MaxTriggers == 4     \* Trigger calls in one behaviour

Threads == 1..NThreads

fExecuting == \E u \in Threads : tpc[u] = "f"

\* Trigger with a plain store in place of the compare-and-swap
MutTriggerStore(t) ==
    /\ tpc[t] = "idle"
    /\ triggers < MaxTriggers
    /\ triggers' = triggers + 1
    /\ callState' = [callState EXCEPT ![t] =
                        [made |-> TRUE, fExec |-> fExecuting, owned |-> inFlight,
                         run |-> runCount]]
    /\ unserved' = unserved \cup {t}
    /\ duringRun' = IF fExecuting /\ runCount = 1 THEN duringRun + 1 ELSE duringRun
    /\ ranSelf' = [ranSelf EXCEPT ![t] = 0]
    /\ inFlight' = TRUE
    /\ won' = [won EXCEPT ![t] = TRUE]
    /\ tpc' = [tpc EXCEPT ![t] = "run"]
    /\ UNCHANGED <<pending, mu, runCount, concurrent, maxConcurrent, doneDuring>>
    /\ UNCHANGED notCoVars

\* Trigger whose winner checks the pending marker before its first run
MutTriggerCheckFirst(t) ==
    /\ tpc[t] = "idle"
    /\ triggers < MaxTriggers
    /\ triggers' = triggers + 1
    /\ callState' = [callState EXCEPT ![t] =
                        [made |-> TRUE, fExec |-> fExecuting, owned |-> inFlight,
                         run |-> runCount]]
    /\ unserved' = unserved \cup {t}
    /\ duringRun' = IF fExecuting /\ runCount = 1 THEN duringRun + 1 ELSE duringRun
    /\ ranSelf' = [ranSelf EXCEPT ![t] = 0]
    /\ IF ~inFlight
       THEN /\ inFlight' = TRUE
            /\ won' = [won EXCEPT ![t] = TRUE]
            /\ tpc' = [tpc EXCEPT ![t] = "lockCheck"]
       ELSE /\ won' = [won EXCEPT ![t] = FALSE]
            /\ tpc' = [tpc EXCEPT ![t] = "lockPending"]
            /\ UNCHANGED inFlight
    /\ UNCHANGED <<pending, mu, runCount, concurrent, maxConcurrent, doneDuring>>
    /\ UNCHANGED notCoVars

\* Trigger is entered: the compare-and-swap of the in-flight atomic
Trigger(t) ==
    /\ tpc[t] = "idle"
    /\ triggers < MaxTriggers
    /\ triggers' = triggers + 1
    /\ callState' = [callState EXCEPT ![t] =
                        [made |-> TRUE, fExec |-> fExecuting, owned |-> inFlight,
                         run |-> runCount]]
    /\ unserved' = unserved \cup {t}
    /\ duringRun' = IF fExecuting /\ runCount = 1 THEN duringRun + 1 ELSE duringRun
    /\ ranSelf' = [ranSelf EXCEPT ![t] = 0]
    /\ IF ~inFlight
       THEN /\ inFlight' = TRUE
            /\ won' = [won EXCEPT ![t] = TRUE]
            /\ tpc' = [tpc EXCEPT ![t] = "run"]
       ELSE /\ won' = [won EXCEPT ![t] = FALSE]
            /\ tpc' = [tpc EXCEPT ![t] = "lockPending"]
            /\ UNCHANGED inFlight
    /\ UNCHANGED <<pending, mu, runCount, concurrent, maxConcurrent, doneDuring>>
    /\ UNCHANGED notCoVars

\* the loser locks the mutex
LockPending(t) ==
    /\ tpc[t] = "lockPending"
    /\ mu = 0
    /\ mu' = t
    /\ tpc' = [tpc EXCEPT ![t] = "setPending"]
    /\ UNCHANGED <<inFlight, pending, won, ranSelf, triggers, runCount, concurrent,
                   maxConcurrent, unserved, duringRun, doneDuring, callState>>
    /\ UNCHANGED notCoVars

\* the loser sets the pending marker, unlocks and returns
SetPending(t) ==
    /\ tpc[t] = "setPending"
    /\ pending' = TRUE
    /\ mu' = 0
    /\ tpc' = [tpc EXCEPT ![t] = "idle"]
    /\ doneDuring' = IF /\ callState[t].fExec /\ callState[t].run = 1
                        /\ fExecuting /\ runCount = 1
                     THEN doneDuring + 1
                     ELSE doneDuring
    /\ UNCHANGED <<inFlight, won, ranSelf, triggers, runCount, concurrent,
                   maxConcurrent, unserved, duringRun, callState>>
    /\ UNCHANGED notCoVars

\* f starts: the test's counters
FStart(t) ==
    /\ tpc[t] = "run"
    /\ concurrent' = concurrent + 1
    /\ maxConcurrent' = IF concurrent + 1 <= maxConcurrent
                        THEN maxConcurrent
                        ELSE concurrent + 1
    /\ runCount' = runCount + 1
    /\ ranSelf' = [ranSelf EXCEPT ![t] = @ + 1]
    /\ unserved' = {}
    /\ tpc' = [tpc EXCEPT ![t] = "f"]
    /\ UNCHANGED <<inFlight, pending, mu, won, triggers, duringRun, doneDuring,
                   callState>>
    /\ UNCHANGED notCoVars

\* f returns
FEnd(t) ==
    /\ tpc[t] = "f"
    /\ concurrent' = concurrent - 1
    /\ tpc' = [tpc EXCEPT ![t] = "lockCheck"]
    /\ UNCHANGED <<inFlight, pending, mu, won, ranSelf, triggers, runCount,
                   maxConcurrent, unserved, duringRun, doneDuring, callState>>
    /\ UNCHANGED notCoVars

\* the owner locks the mutex to re-check the pending marker
LockCheck(t) ==
    /\ tpc[t] = "lockCheck"
    /\ mu = 0
    /\ mu' = t
    /\ tpc' = [tpc EXCEPT ![t] = "check"]
    /\ UNCHANGED <<inFlight, pending, won, ranSelf, triggers, runCount, concurrent,
                   maxConcurrent, unserved, duringRun, doneDuring, callState>>
    /\ UNCHANGED notCoVars

\* CheckPending that keeps the mutex locked when it runs again
MutCheckPending(t) ==
    /\ tpc[t] = "check"
    /\ IF pending
       THEN /\ pending' = FALSE
            /\ tpc' = [tpc EXCEPT ![t] = "run"]
            /\ UNCHANGED mu
       ELSE /\ tpc' = [tpc EXCEPT ![t] = "release"]
            /\ mu' = 0
            /\ UNCHANGED pending
    /\ UNCHANGED <<inFlight, won, ranSelf, triggers, runCount, concurrent,
                   maxConcurrent, unserved, duringRun, doneDuring, callState>>
    /\ UNCHANGED notCoVars

\* the owner re-checks the marker: set, it clears it and runs again
CheckPending(t) ==
    /\ tpc[t] = "check"
    /\ mu' = 0
    /\ IF pending
       THEN /\ pending' = FALSE
            /\ tpc' = [tpc EXCEPT ![t] = "run"]
       ELSE /\ tpc' = [tpc EXCEPT ![t] = "release"]
            /\ UNCHANGED pending
    /\ UNCHANGED <<inFlight, won, ranSelf, triggers, runCount, concurrent,
                   maxConcurrent, unserved, duringRun, doneDuring, callState>>
    /\ UNCHANGED notCoVars

\* the owner releases ownership and returns
Release(t) ==
    /\ tpc[t] = "release"
    /\ inFlight' = FALSE
    /\ tpc' = [tpc EXCEPT ![t] = "idle"]
    /\ UNCHANGED <<pending, mu, won, ranSelf, triggers, runCount, concurrent,
                   maxConcurrent, unserved, duringRun, doneDuring, callState>>
    /\ UNCHANGED notCoVars

CoalescerInit ==
    /\ inFlight = FALSE
    /\ pending = FALSE
    /\ mu = 0
    /\ tpc = [t \in Threads |-> "idle"]
    /\ won = [t \in Threads |-> FALSE]
    /\ ranSelf = [t \in Threads |-> 0]
    /\ triggers = 0
    /\ runCount = 0
    /\ concurrent = 0
    /\ maxConcurrent = 0
    /\ unserved = {}
    /\ duringRun = 0
    /\ doneDuring = 0
    /\ callState = [t \in Threads |->
                       [made |-> FALSE, fExec |-> FALSE, owned |-> FALSE, run |-> 0]]

CoalescerNext ==
    \E t \in Threads :
        \/ Trigger(t)
        \/ LockPending(t)
        \/ SetPending(t)
        \/ FStart(t)
        \/ FEnd(t)
        \/ LockCheck(t)
        \/ CheckPending(t)
        \/ Release(t)

----------------------------------------------------------------------------
(* axeMatchesTarget on its own: one tree, one step *)

\* the trees: an object with one property, bare or wrapped in arrays and
\* objects, and trees without any object
OtherKey == <<"r","o","l","e">>
TreeScalars ==
    {StrNode(<<"O","k">>), StrNode(<<"x","o","K","y">>), StrNode(<<"n","o">>),
     NumNode(<<"1","2">>), NilNode}
TreeLeaves ==
    {ObjNode(<< <<key, v>> >>) : key \in {AXUniqueId, AXLabel, AXValue, OtherKey},
                                  v \in TreeScalars}
        \cup {ObjNode(<< <<AXLabel, StrNode(<<"n","o">>)>>,
                         <<AXValue, StrNode(<<"x","o","K","y">>)>> >>)}
Trees ==
    TreeLeaves
        \cup {ArrNode(<<x>>) : x \in TreeLeaves}
        \cup {ArrNode(<< ArrNode(<< NumNode(<<"1">>), x >>) >>) : x \in TreeLeaves}
        \cup {ObjNode(<< <<ChildrenKey, ArrNode(<< NilNode, x >>)>> >>) : x \in TreeLeaves}
        \cup {ObjNode(<< <<AXLabel, x>> >>) : x \in TreeLeaves}
        \cup TreeScalars
        \cup {ArrNode(<<v>>) : v \in TreeScalars}
        \cup {ArrNode(<<>>), ObjNode(<<>>)}

\* the targets: nil, blank, or text, in any case and with surrounding blanks
TargetFields ==
    {<<>>, << <<" "," ">> >>, << <<" ","O","K"," ">> >>, << <<"k">> >>,
     << <<"1","2">> >>}
MatchSteps ==
    {[PlanStep(ActionWaitFor, lbl, id, <<>>, <<>>, <<>>, <<>>, <<>>)
         EXCEPT !.contains = cn] :
        lbl \in TargetFields, id \in TargetFields, cn \in TargetFields}

MatcherIdle ==
    /\ mpc = "idle" /\ mRoot = NilNode /\ mStep = StepLaunch /\ mMatched = FALSE

MatcherInit ==
    /\ mpc = "call"
    /\ mRoot \in Trees
    /\ mStep \in MatchSteps
    /\ mMatched = FALSE

\* axeMatchesTarget, lines 175-183, on a tree that parsed
AxeMatch ==
    /\ mpc = "call"
    /\ mMatched' = MatchesStep(mRoot, mStep)
    /\ mpc' = "done"
    /\ UNCHANGED <<notMatchVars, mRoot, mStep>>

----------------------------------------------------------------------------
(* The approval ledger.  A map[string]bool is the set of its <<key, value>> *)
(* pairs.  The ledger file is absent, unreadable, or holds a JSON document: *)
(* an object of booleans (map), an array of strings (list), an object with  *)
(* an "approved" array (wrapped), null, or anything else (invalid).  An     *)
(* object that the wrapped struct decodes without an "approved" member is  *)
(* WrappedDoc(<<>>): json.Unmarshal ignores the members it does not know.  *)

\* the characters of the model in byte order
CharOrder ==
    <<"\t", "\n", "\r", " ", "-", ".", "/",
      "0", "1", "2", "3", "4", "5", "6", "7", "8", "9", ":",
      "A", "B", "C", "D", "E", "F", "G", "H", "I", "J", "K", "L", "M",
      "N", "O", "P", "Q", "R", "S", "T", "U", "V", "W", "X", "Y", "Z",
      "[", "]", "_",
      "a", "b", "c", "d", "e", "f", "g", "h", "i", "j", "k", "l", "m",
      "n", "o", "p", "q", "r", "s", "t", "u", "v", "w", "x", "y", "z", "|">>
RankOf ==
    [c \in {CharOrder[k] : k \in 1..Len(CharOrder)} |->
        CHOOSE k \in 1..Len(CharOrder) : CharOrder[k] = c]

\* s < t for Go strings
Less(s, t) ==
    \E k \in 1..(Len(t)) :
        /\ k <= Len(s) + 1
        /\ \A j \in 1..(k - 1) : s[j] = t[j]
        /\ k = Len(s) + 1 \/ RankOf[s[k]] < RankOf[t[k]]

NoFile == [kind |-> "absent", list |-> <<>>, map |-> {}]
Unreadable == [kind |-> "unreadable", list |-> <<>>, map |-> {}]
InvalidDoc == [kind |-> "invalid", list |-> <<>>, map |-> {}]
NullDoc == [kind |-> "null", list |-> <<>>, map |-> {}]
MapDoc(pairs) == [kind |-> "map", list |-> <<>>, map |-> pairs]
ListDoc(keys) == [kind |-> "list", list |-> keys, map |-> {}]
WrappedDoc(keys) == [kind |-> "wrapped", list |-> keys, map |-> {}]

\* approvals[key]
Approved(m, key) == <<key, TRUE>> \in m
\* approvals[key] = true
Approve(m, key) == (m \ {<<key, FALSE>>}) \cup {<<key, TRUE>>}
\* the keys whose value is true
ApprovedKeys(m) == {pr[1] : pr \in {q \in m : q[2]}}

LoadResult(err, m) == [err |-> err, approvals |-> m]
ReadErr == <<Layer("read approvals file", 0, <<>>, "")>>
ParseApprovalsErr == <<Layer("parse approvals file", 0, <<>>, "")>>

\* loadApprovals with the map format filtered like the other two
MutloadApprovals(doc) ==
    CASE doc.kind = "absent" -> LoadResult(NoErr, {})
      [] doc.kind = "unreadable" -> LoadResult(ReadErr, {})
      [] doc.kind \in {"map", "null"} ->
            LoadResult(NoErr, {<<TrimSpace(pr[1]), TRUE>> :
                                  pr \in {q \in doc.map : q[2] /\ TrimSpace(q[1]) # <<>>}})
      [] doc.kind \in {"list", "wrapped"} ->
            LoadResult(NoErr, {<<TrimSpace(doc.list[k]), TRUE>> :
                                  k \in {j \in 1..Len(doc.list) : TrimSpace(doc.list[j]) # <<>>}})
      [] OTHER -> LoadResult(ParseApprovalsErr, {})

\* loadApprovals without the os.ErrNotExist exception
StrictloadApprovals(doc) ==
    IF doc.kind = "absent" THEN LoadResult(ReadErr, {})
    ELSE MutloadApprovals(doc)

loadApprovals(doc) ==
    CASE doc.kind = "absent" -> LoadResult(NoErr, {})
      [] doc.kind = "unreadable" -> LoadResult(ReadErr, {})
      [] doc.kind \in {"map", "null"} ->
            LoadResult(NoErr, {<<TrimSpace(pr[1]), TRUE>> : pr \in {q \in doc.map : q[2]}})
      [] doc.kind \in {"list", "wrapped"} ->
            LoadResult(NoErr, {<<TrimSpace(doc.list[k]), TRUE>> :
                                  k \in {j \in 1..Len(doc.list) : TrimSpace(doc.list[j]) # <<>>}})
      [] OTHER -> LoadResult(ParseApprovalsErr, {})

\* sort.Strings of the trimmed keys of a set of map keys; keys that differ
\* only in surrounding white space each give one element
RECURSIVE SortedTrimmed(_)
SortedTrimmed(keys) ==
    IF keys = {} THEN <<>>
    ELSE LET least == CHOOSE k \in keys :
                          \A o \in keys : ~Less(TrimSpace(o), TrimSpace(k))
         IN  <<TrimSpace(least)>> \o SortedTrimmed(keys \ {least})

\* SaveApprovals, lines 804-821: the payload
SavePayload(m) ==
    WrappedDoc(SortedTrimmed({k \in ApprovedKeys(m) : TrimSpace(k) # <<>>}))

\* SaveApprovals, lines 827-833: how MkdirAll and WriteFile may end, and
\* the file afterwards; os.WriteFile truncates before it writes
SaveOutcomes == {"ok", "mkdir", "open", "write"}
SaveErr(io) ==
    CASE io = "ok" -> NoErr
      [] io = "mkdir" -> <<Layer("create approvals directory", 0, <<>>, "")>>
      [] OTHER -> <<Layer("write approvals file", 0, <<>>, "")>>
SavedFile(old, m, io) ==
    CASE io = "ok" -> SavePayload(m)
      [] io = "write" -> InvalidDoc
      [] OTHER -> old

\* the ledger files of the round trip
LedgerKeys ==
    {<<"a">>, <<" ","a">>, <<"a"," ">>, <<"b">>, <<>>, <<" ">>}
MaxLedgerKeys == 2
MapDocs ==
    {MapDoc({<<k, b[k]>> : k \in ks}) :
        ks \in {x \in SUBSET LedgerKeys : Cardinality(x) <= MaxLedgerKeys},
        b \in [LedgerKeys -> BOOLEAN]}
KeyLists == UNION {[1..n -> LedgerKeys] : n \in 0..MaxLedgerKeys}
LedgerFiles ==
    {NoFile, Unreadable, InvalidDoc, NullDoc}
        \cup MapDocs
        \cup {ListDoc(ks) : ks \in KeyLists}
        \cup {WrappedDoc(ks) : ks \in KeyLists}

LedgerIdle ==
    /\ ledger = NoFile /\ approvals = {} /\ firstLoad = {} /\ lpc = "idle"
    /\ lerr = NoErr

LedgerInit ==
    /\ ledger \in LedgerFiles
    /\ approvals = {} /\ firstLoad = {} /\ lpc = "load" /\ lerr = NoErr

\* loadApprovals(path), called first and again after the save
LoadLedger ==
    /\ lpc \in {"load", "reload"}
    /\ LET r == loadApprovals(ledger) IN
       /\ lerr' = r.err
       /\ approvals' = r.approvals
       /\ firstLoad' = IF lpc = "load" THEN ApprovedKeys(r.approvals) ELSE firstLoad
       /\ lpc' = IF r.err # NoErr THEN "failed"
                 ELSE IF lpc = "load" THEN "save" ELSE "done"
    /\ UNCHANGED <<notLedgerVars, ledger>>

\* SaveApprovals(path, approvals)
SaveLedger ==
    /\ lpc = "save"
    /\ \E io \in SaveOutcomes :
          /\ ledger' = SavedFile(ledger, approvals, io)
          /\ lerr' = SaveErr(io)
          /\ lpc' = IF io = "ok" THEN "reload" ELSE "failed"
    /\ UNCHANGED <<notLedgerVars, approvals, firstLoad>>

LedgerNext == LoadLedger \/ SaveLedger

----------------------------------------------------------------------------
(* The review pipeline.  A path is the text of the path relative to its     *)
(* directory, with "/" between its elements; a directory is the set of its  *)
(* files, each with the pixel size of its image.                            *)

\* F applied to the value of x, x evaluated once
Let(x, F(_)) == CHOOSE y \in {F(v) : v \in {x}} : TRUE

\* strings.Split(s, c) for a one-character separator
RECURSIVE Split(_, _)
Split(s, c) ==
    IF \E k \in 1..Len(s) : s[k] = c
    THEN LET at == CHOOSE q \in 1..Len(s) :
                       s[q] = c /\ \A j \in 1..(q - 1) : s[j] # c
         IN  <<SubSeq(s, 1, at - 1)>> \o Split(SubSeq(s, at + 1, Len(s)), c)
    ELSE <<s>>

\* filepath.Base, filepath.Ext, strings.TrimSuffix, strings.ReplaceAll
Base(path) == LET parts == Split(path, "/") IN parts[Len(parts)]
Ext(path) ==
    LET b == Base(path) IN
    IF \E k \in 1..Len(b) : b[k] = "."
    THEN LET dot == CHOOSE q \in 1..Len(b) :
                        b[q] = "." /\ \A j \in (q + 1)..Len(b) : b[j] # "."
         IN  SubSeq(b, dot, Len(b))
    ELSE <<>>
TrimSuffix(s, suffix) ==
    IF Len(suffix) <= Len(s) /\ SubSeq(s, Len(s) - Len(suffix) + 1, Len(s)) = suffix
    THEN SubSeq(s, 1, Len(s) - Len(suffix))
    ELSE s
ReplaceAll(s, old, new) == [k \in 1..Len(s) |-> IF s[k] = old THEN new ELSE s[k]]
\* the letter e with an acute accent (U+00E9), two bytes in UTF-8; every
\* other character of the model is one byte
EAcute == "e'"
\* len(s) of a Go string: its length in bytes
ByteLen(s) == Len(s) + Cardinality({k \in 1..Len(s) : s[k] = EAcute})
\* unicode.IsLetter
IsLetter(c) == c = EAcute \/ \E k \in 1..26 : c = Upper[k] \/ c = Lower[k]

isImageFile(path) ==
    ToLower(Ext(path)) \in {<<".","p","n","g">>, <<".","j","p","g">>, <<".","j","p","e","g">>, <<".","w","e","b","p">>}

\* a locale test that asks of a later group only that it is not empty
LaxlooksLikeLocale(token) ==
    LET clean == TrimSpace(ReplaceAll(token, "_", "-"))
        parts == Split(clean, "-")
    IN  /\ clean # <<>>
        /\ Len(parts) <= 3
        /\ \A index \in 1..Len(parts) :
              /\ parts[index] # <<>>
              /\ ByteLen(parts[index]) >= (IF index > 1 THEN 1 ELSE 2)
              /\ ByteLen(parts[index]) <= (IF index > 1 THEN 8 ELSE 3)
              /\ \A k \in 1..Len(parts[index]) : IsLetter(parts[index][k])

looksLikeLocale(token) ==
    LET clean == TrimSpace(ReplaceAll(token, "_", "-"))
        parts == Split(clean, "-")
    IN  /\ clean # <<>>
        /\ Len(parts) <= 3
        /\ \A index \in 1..Len(parts) :
              /\ parts[index] # <<>>
              /\ ByteLen(parts[index]) >= 2
              /\ ByteLen(parts[index]) <= (IF index > 1 THEN 8 ELSE 3)
              /\ \A k \in 1..Len(parts[index]) : IsLetter(parts[index][k])

\* a path inference that takes every leading segment for a locale
LocaleFirstinferLocaleAndDevice(relPath) ==
    LET parts == Split(relPath, "/") IN
    IF Len(parts) >= 3 THEN <<parts[1], parts[2]>>
    ELSE IF Len(parts) = 2 THEN <<parts[1], <<>>>>
         ELSE <<<<>>, <<>>>>

\* <<locale, device>>
inferLocaleAndDevice(relPath) ==
    LET parts == Split(relPath, "/") IN
    IF Len(parts) >= 3 THEN <<parts[1], parts[2]>>
    ELSE IF Len(parts) = 2
         THEN IF looksLikeLocale(parts[1]) THEN <<parts[1], <<>>>>
              ELSE <<<<>>, parts[1]>>
         ELSE <<<<>>, <<>>>>

makeReviewKey(locale, device, screenshotID) ==
    TrimSpace(locale) \o <<"|">> \o TrimSpace(device) \o <<"|">> \o TrimSpace(screenshotID)
rawIndexReviewKey(locale, device, screenshotID) ==
    <<"r","e","v","i","e","w","|">> \o makeReviewKey(locale, device, screenshotID)
rawIndexScreenshotKey(screenshotID) == <<"i","d","|">> \o TrimSpace(screenshotID)

reviewStatusReady == <<"r","e","a","d","y">>
reviewStatusMissingRaw == <<"m","i","s","s","i","n","g","_","r","a","w">>
reviewStatusInvalidSize == <<"i","n","v","a","l","i","d","_","s","i","z","e">>
reviewStatusMissingAndInvalid == <<"m","i","s","s","i","n","g","_","r","a","w","_","i","n","v","a","l","i","d","_","s","i","z","e">>

\* a status that looks at the raw file alone
RawOnlyStatus(hasRaw, hasValidSize) ==
    IF hasRaw THEN reviewStatusReady ELSE reviewStatusMissingRaw

deriveReviewStatus(hasRaw, hasValidSize) ==
    CASE hasRaw /\ hasValidSize -> reviewStatusReady
      [] ~hasRaw /\ hasValidSize -> reviewStatusMissingRaw
      [] hasRaw /\ ~hasValidSize -> reviewStatusInvalidSize
      [] OTHER -> reviewStatusMissingAndInvalid

\* an approval state that does not follow the flag
AlwaysPending(approved) == "pending"

approvalState(approved) == IF approved THEN "approved" ELSE "pending"

\* the display types of package asc and the sizes each accepts
ScreenshotDisplayTypes ==
    <<<<"A","P","P","_","I","P","H","O","N","E","_","6","7">>, <<"A","P","P","_","A","P","P","L","E","_","T","V">>, <<"I","M","E","S","S","A","G","E","_","A","P","P","_","I","P","H","O","N","E","_","6","7">>>>
ScreenshotDimensions(displayType) ==
    CASE displayType = <<"A","P","P","_","I","P","H","O","N","E","_","6","7">> -> {<<1290, 2796>>, <<2796, 1290>>}
      [] displayType = <<"A","P","P","_","A","P","P","L","E","_","T","V">> -> {<<1920, 1080>>}
      [] displayType = <<"I","M","E","S","S","A","G","E","_","A","P","P","_","I","P","H","O","N","E","_","6","7">> -> {<<1290, 2796>>}
      [] OTHER -> {}
HasPrefix(s, prefix) == Len(prefix) <= Len(s) /\ SubSeq(s, 1, Len(prefix)) = prefix

matchingAppDisplayTypes(width, height) ==
    SelectSeq(ScreenshotDisplayTypes,
              LAMBDA displayType :
                  /\ HasPrefix(displayType, <<"A","P","P","_">>)
                  /\ <<width, height>> \in ScreenshotDimensions(displayType))

\* a map[string]string as the set of its <<key, value>> pairs
MapHas(m, key) == \E pr \in m : pr[1] = key
MapAt(m, key) == IF MapHas(m, key) THEN (CHOOSE pr \in m : pr[1] = key)[2] ELSE <<>>
MapDelete(m, key) == {pr \in m : pr[1] # key}
MapPut(m, key, value) == MapDelete(m, key) \cup {<<key, value>>}

\* sort.Strings of a set of distinct strings
RECURSIVE SortStrings(_)
SortStrings(set) ==
    IF set = {} THEN <<>>
    ELSE LET least == CHOOSE x \in set : \A y \in set : ~Less(y, x)
         IN  <<least>> \o SortStrings(set \ {least})

\* directories
ImageFile(rel, w, h, readable) == [rel |-> rel, w |-> w, h |-> h, readable |-> readable]
Dir(files) == [kind |-> "dir", files |-> files]
MissingDir == [kind |-> "missing", files |-> {}]
NotADir == [kind |-> "file", files |-> {}]
UnwalkableDir == [kind |-> "unwalkable", files |-> {}]
FileAt(dir, rel) == CHOOSE f \in dir.files : f.rel = rel

ScanErr == <<Layer("scan screenshot directory", 0, <<>>, "")>>
DimensionsErr == <<Layer("read screenshot dimensions", 0, <<>>, "")>>

\* sort.Strings turned round
RECURSIVE SortStringsDescending(_)
SortStringsDescending(set) ==
    IF set = {} THEN <<>>
    ELSE LET most == CHOOSE x \in set : \A y \in set : ~Less(x, y)
         IN  <<most>> \o SortStringsDescending(set \ {most})

\* collectImageFiles that returns the files in descending order
DescendingcollectImageFiles(dir) ==
    IF dir.kind # "dir" THEN [err |-> ScanErr, files |-> <<>>]
    ELSE [err |-> NoErr,
          files |-> SortStringsDescending(
                        {f.rel : f \in {g \in dir.files : isImageFile(g.rel)}})]

\* collectImageFiles: [err, files]
collectImageFiles(dir) ==
    IF dir.kind # "dir" THEN [err |-> ScanErr, files |-> <<>>]
    ELSE [err |-> NoErr,
          files |-> SortStrings({f.rel : f \in {g \in dir.files : isImageFile(g.rel)}})]

\* the loop of buildRawIndex without the set of ambiguous ids
RECURSIVE ForgetfulIndexRawFiles(_, _, _)
ForgetfulIndexRawFiles(rawFiles, index, ambiguousScreenshotIDs) ==
    IF rawFiles = <<>> THEN index
    ELSE
      LET rawPath == Head(rawFiles)
          base == TrimSuffix(Base(rawPath), Ext(rawPath))
          idKey == rawIndexScreenshotKey(base)
          byID == IF ~MapHas(index, idKey) THEN MapPut(index, idKey, rawPath)
                  ELSE IF MapAt(index, idKey) # rawPath THEN MapDelete(index, idKey)
                  ELSE index
          ld == inferLocaleAndDevice(rawPath)
          reviewKey == rawIndexReviewKey(ld[1], ld[2], base)
          byKey == IF MapHas(byID, reviewKey) THEN byID
                   ELSE MapPut(byID, reviewKey, rawPath)
      IN  ForgetfulIndexRawFiles(Tail(rawFiles), byKey, ambiguousScreenshotIDs)

\* the loop of buildRawIndex over the sorted raw files
RECURSIVE IndexRawFiles(_, _, _)
IndexRawFiles(rawFiles, index, ambiguousScreenshotIDs) ==
    IF rawFiles = <<>> THEN index
    ELSE
      LET rawPath == Head(rawFiles)
          base == TrimSuffix(Base(rawPath), Ext(rawPath))
          idKey == rawIndexScreenshotKey(base)
          collides == /\ idKey \notin ambiguousScreenshotIDs
                      /\ MapHas(index, idKey)
                      /\ MapAt(index, idKey) # rawPath
          byID == IF idKey \in ambiguousScreenshotIDs THEN MapDelete(index, idKey)
                  ELSE IF ~MapHas(index, idKey) THEN MapPut(index, idKey, rawPath)
                  ELSE IF MapAt(index, idKey) # rawPath THEN MapDelete(index, idKey)
                  ELSE index
          ld == inferLocaleAndDevice(rawPath)
          reviewKey == rawIndexReviewKey(ld[1], ld[2], base)
          byKey == IF MapHas(byID, reviewKey) THEN byID
                   ELSE MapPut(byID, reviewKey, rawPath)
      IN  IndexRawFiles(Tail(rawFiles), byKey,
                        IF collides THEN ambiguousScreenshotIDs \cup {idKey}
                        ELSE ambiguousScreenshotIDs)

\* buildRawIndex without the early return for an unavailable directory
WalkingbuildRawIndex(rawDir, rawAvailable) ==
    LET c == collectImageFiles(rawDir) IN
    IF c.err # NoErr
    THEN [err |-> Wrap(Layer("scan raw screenshot directory", 0, <<>>, ""), c.err),
          index |-> {}]
    ELSE [err |-> NoErr, index |-> IndexRawFiles(c.files, {}, {})]

\* buildRawIndex: [err, index]
buildRawIndex(rawDir, rawAvailable) ==
    IF ~rawAvailable THEN [err |-> NoErr, index |-> {}]
    ELSE LET c == collectImageFiles(rawDir) IN
         IF c.err # NoErr
         THEN [err |-> Wrap(Layer("scan raw screenshot directory", 0, <<>>, ""), c.err),
               index |-> {}]
         ELSE [err |-> NoErr, index |-> IndexRawFiles(c.files, {}, {})]

\* a raw match that takes every candidate without a differing segment
LenientRawMatch(locale, device, screenshotID, rawAvailable, rawIndex) ==
    LET byKey == MapAt(rawIndex, rawIndexReviewKey(locale, device, screenshotID))
        candidate == MapAt(rawIndex, rawIndexScreenshotKey(screenshotID))
        cld == inferLocaleAndDevice(candidate)
    IN  IF ~rawAvailable THEN <<>>
        ELSE IF byKey # <<>> THEN byKey
        ELSE IF candidate = <<>> THEN <<>>
        ELSE IF /\ locale = <<>> \/ cld[1] = <<>> \/ locale = cld[1]
                /\ device = <<>> \/ cld[2] = <<>> \/ device = cld[2]
             THEN candidate
             ELSE <<>>

\* the raw file paired with a framed file, "" when there is none
RawMatch(locale, device, screenshotID, rawAvailable, rawIndex) ==
    LET byKey == MapAt(rawIndex, rawIndexReviewKey(locale, device, screenshotID))
        candidate == MapAt(rawIndex, rawIndexScreenshotKey(screenshotID))
        cld == inferLocaleAndDevice(candidate)
        candidateIsGeneric == cld[1] = <<>> /\ cld[2] = <<>>
    IN  IF ~rawAvailable THEN <<>>
        ELSE IF byKey # <<>> THEN byKey
        ELSE IF candidate = <<>> THEN <<>>
        ELSE IF locale = <<>> /\ device = <<>> THEN candidate
        ELSE IF \/ candidateIsGeneric
                \/ /\ locale = <<>> \/ locale = cld[1]
                   /\ device = <<>> \/ device = cld[2]
             THEN candidate
             ELSE <<>>

\* the directories the requests name
FramedDirPath == <<"f","r","a","m","e","d">>
RawDirPath == <<"r","a","w">>

\* the body of the loop of buildReviewEntries for one framed file
ReviewEntry(f, rawAvailable, rawIndex, approved) ==
    LET screenshotID == TrimSuffix(Base(f.rel), Ext(f.rel))
        ld == inferLocaleAndDevice(f.rel)
        displayTypes == matchingAppDisplayTypes(f.w, f.h)
        hasValidSize == Len(displayTypes) > 0
        rawPath == RawMatch(ld[1], ld[2], screenshotID, rawAvailable, rawIndex)
        reviewKey == makeReviewKey(ld[1], ld[2], screenshotID)
    IN  [key |-> reviewKey,
         screenshotID |-> screenshotID,
         locale |-> ld[1],
         device |-> ld[2],
         framedRelative |-> f.rel,
         rawPath |-> IF rawPath = <<>> THEN <<>> ELSE RawDirPath \o <<"/">> \o rawPath,
         rawRelative |-> rawPath,
         width |-> f.w,
         height |-> f.h,
         displayTypes |-> displayTypes,
         validAppStoreSize |-> hasValidSize,
         status |-> deriveReviewStatus(rawPath # <<>>, hasValidSize),
         approved |-> Approved(approved, reviewKey),
         approvalState |-> approvalState(Approved(approved, reviewKey))]

\* buildReviewEntries: [err, entries].  ctxAt is the iteration at whose start
\* the context is first seen cancelled (0: never)
buildReviewEntries(framedDir, rawAvailable, rawIndex, approved, ctxAt) ==
    LET c == collectImageFiles(framedDir)
        n == Len(c.files)
        unreadable == {k \in 1..n : ~FileAt(framedDir, c.files[k]).readable}
        stopAt == {k \in 1..n : k = ctxAt \/ k \in unreadable}
        first == CHOOSE k \in stopAt : \A j \in stopAt : k <= j
    IN  IF c.err # NoErr THEN [err |-> c.err, entries |-> <<>>]
        ELSE IF stopAt # {}
        THEN [err |-> IF first = ctxAt THEN CanceledErr ELSE DimensionsErr,
              entries |-> <<>>]
        ELSE [err |-> NoErr,
              entries |-> [k \in 1..n |->
                              ReviewEntry(FileAt(framedDir, c.files[k]),
                                          rawAvailable, rawIndex, approved)]]

CountWhere(entries, Test(_)) == Cardinality({k \in 1..Len(entries) : Test(entries[k])})

\* a summary that counts a status only where it is the whole status
ExactsummarizeReviewEntries(entries) ==
    [total |-> Len(entries),
     ready |-> CountWhere(entries, LAMBDA e : e.status = reviewStatusReady),
     missingRaw |-> CountWhere(entries, LAMBDA e : e.status = reviewStatusMissingRaw),
     invalidSize |-> CountWhere(entries, LAMBDA e : e.status = reviewStatusInvalidSize),
     approved |-> CountWhere(entries, LAMBDA e : e.approved),
     pendingApproval |-> CountWhere(entries, LAMBDA e : ~e.approved)]

summarizeReviewEntries(entries) ==
    [total |-> Len(entries),
     ready |-> CountWhere(entries, LAMBDA e : e.status = reviewStatusReady),
     missingRaw |-> CountWhere(entries, LAMBDA e : Contains(e.status, reviewStatusMissingRaw)),
     invalidSize |-> CountWhere(entries, LAMBDA e : Contains(e.status, reviewStatusInvalidSize)),
     approved |-> CountWhere(entries, LAMBDA e : e.approved),
     pendingApproval |-> CountWhere(entries, LAMBDA e : ~e.approved)]

\* manifest.json and index.html
NoManifest == [kind |-> "absent"]
BrokenManifest == [kind |-> "invalid"]
ReviewManifest(generatedAt, rawAvailable, entries) ==
    Let(entries, LAMBDA es :
        [kind |-> "manifest",
         generatedAt |-> generatedAt,
         rawDir |-> rawAvailable,
         summary |-> summarizeReviewEntries(es),
         entries |-> es])
NoHTML == [kind |-> "absent"]
BrokenHTML == [kind |-> "invalid"]
renderReviewHTML(manifest) ==
    [kind |-> "html", generatedAt |-> manifest.generatedAt,
     summary |-> manifest.summary, entries |-> manifest.entries]

NoReviewResult == [total |-> -1]
ReviewResult(summary) ==
    [total |-> summary.total, ready |-> summary.ready,
     missingRaw |-> summary.missingRaw, invalidSize |-> summary.invalidSize,
     approved |-> summary.approved, pending |-> summary.pendingApproval]

ReviewErr(text) == <<Layer(text, 0, <<>>, "")>>

\* what the environment does to one GenerateReview: nothing, or the one
\* thing that goes wrong first.  "ctx0" is a context cancelled on entry,
\* "ctx1" and "ctx2" one first seen cancelled at the start of the first and
\* of the second iteration over the framed files.
GenerateOutcomes ==
    {"ok", "ctx0", "ctx1", "ctx2", "absFramed", "absOutput", "mkdir", "absRaw",
     "manifestOpen", "manifestWrite", "render", "htmlOpen", "htmlWrite"}
CtxAt(io) == CASE io = "ctx1" -> 1 [] io = "ctx2" -> 2 [] OTHER -> 0

\* the ledger file after GenerateReview, had it created a missing ledger
MutLedgerAfterGenerate(old) == IF old = NoFile THEN WrappedDoc(<<>>) ELSE old

\* the ledger file after GenerateReview: the function writes manifest.json
\* and index.html and nothing else
LedgerAfterGenerate(old) == old

\* GenerateReview: [err, result, manifestFile, htmlFile, ledger]
generateReview(req, io, now, oldManifest, oldHTML, oldLedger) ==
    LET fail(err) == [err |-> err, result |-> NoReviewResult,
                      manifestFile |-> oldManifest, htmlFile |-> oldHTML,
                      ledger |-> oldLedger]
        rawDir == TrimSpace(req.rawDir)
        rawAvailable == rawDir # <<>> /\ raw.kind \in {"dir", "unwalkable"}
    IN  IF io = "ctx0" THEN fail(CanceledErr)
        ELSE IF TrimSpace(req.framedDir) = <<>>
            THEN fail(ReviewErr("framed directory is required"))
        ELSE IF io = "absFramed" THEN fail(ReviewErr("resolve framed directory"))
        ELSE IF framed.kind = "missing" THEN fail(ReviewErr("read framed directory"))
        ELSE IF framed.kind = "file"
            THEN fail(ReviewErr("framed directory must be a directory"))
        ELSE IF io = "absOutput" THEN fail(ReviewErr("resolve output directory"))
        ELSE IF io = "mkdir" THEN fail(ReviewErr("create output directory"))
        ELSE Let(loadApprovals(oldLedger), LAMBDA loaded :
        IF loaded.err # NoErr THEN fail(loaded.err)
        ELSE IF rawDir # <<>> /\ io = "absRaw" THEN fail(ReviewErr("resolve raw directory"))
        ELSE Let(buildRawIndex(raw, rawAvailable), LAMBDA rawIndex :
        IF rawIndex.err # NoErr THEN fail(rawIndex.err)
        ELSE Let(buildReviewEntries(framed, rawAvailable, rawIndex.index,
                                    loaded.approvals, CtxAt(io)), LAMBDA built :
        IF built.err # NoErr THEN fail(built.err)
        ELSE Let(ReviewManifest(now, rawAvailable, built.entries), LAMBDA manifest :
        IF io = "manifestOpen" THEN fail(ReviewErr("write manifest JSON"))
        ELSE IF io = "manifestWrite"
            THEN [fail(ReviewErr("write manifest JSON")) EXCEPT
                     !.manifestFile = BrokenManifest]
        ELSE IF io = "render"
            THEN [fail(ReviewErr("render review HTML template")) EXCEPT
                     !.manifestFile = manifest]
        ELSE IF io = "htmlOpen"
            THEN [fail(ReviewErr("write review HTML")) EXCEPT
                     !.manifestFile = manifest]
        ELSE IF io = "htmlWrite"
            THEN [fail(ReviewErr("write review HTML")) EXCEPT
                     !.manifestFile = manifest, !.htmlFile = BrokenHTML]
        ELSE [err |-> NoErr,
              result |-> ReviewResult(manifest.summary),
              manifestFile |-> manifest,
              htmlFile |-> renderReviewHTML(manifest),
              ledger |-> LedgerAfterGenerate(oldLedger)]))))

\* LoadReviewManifest: [err, entries]
LoadReviewManifest(file) ==
    CASE file.kind = "absent" -> [err |-> ReviewErr("read review manifest"), entries |-> <<>>]
      [] file.kind = "invalid" ->
            [err |-> ReviewErr("parse review manifest JSON"), entries |-> <<>>]
      [] OTHER -> [err |-> NoErr, entries |-> file.entries]

\* ApproveReview, after the spec and its three tests
SelectorErr == ReviewErr("provide at least one selector")
\* no selector asked for
MuthasSelector(req) == TRUE

hasSelector(req) ==
    req.allReady \/ TrimSpace(req.locale) # <<>> \/ TrimSpace(req.device) # <<>>

\* a selector that ignores all-ready when a filter is given
MutmatchesApprovalSelector(entry, req) ==
    /\ TrimSpace(req.locale) = <<>> \/ entry.locale = TrimSpace(req.locale)
    /\ TrimSpace(req.device) = <<>> \/ entry.device = TrimSpace(req.device)
    /\ (req.allReady /\ TrimSpace(req.locale) = <<>> /\ TrimSpace(req.device) = <<>>)
          => entry.status = reviewStatusReady

matchesApprovalSelector(entry, req) ==
    IF req.allReady THEN entry.status = reviewStatusReady
    ELSE /\ TrimSpace(req.locale) = <<>> \/ entry.locale = TrimSpace(req.locale)
         /\ TrimSpace(req.device) = <<>> \/ entry.device = TrimSpace(req.device)

NoApproveResult == [matched |-> -1, added |-> -1, totalApproved |-> -1, keys |-> <<>>]

\* ApproveReview: [err, result, ledger]
approveReview(req, io, oldManifest, oldLedger) ==
    LET fail(err) == [err |-> err, result |-> NoApproveResult, ledger |-> oldLedger]
        manifest == LoadReviewManifest(oldManifest)
    IN  IF ~hasSelector(req) THEN fail(SelectorErr)
        ELSE IF manifest.err # NoErr THEN fail(manifest.err)
        ELSE Let(loadApprovals(oldLedger), LAMBDA loaded :
        IF loaded.err # NoErr THEN fail(loaded.err)
        ELSE Let(SelectSeq(manifest.entries,
                           LAMBDA e : matchesApprovalSelector(e, req)), LAMBDA matched :
        LET keys == [n \in 1..Len(matched) |-> matched[n].key]
            matchedKeys == {matched[n].key : n \in 1..Len(matched)}
            added == {key \in matchedKeys : ~Approved(loaded.approvals, key)}
            approved == loaded.approvals \cup {<<key, TRUE>> : key \in matchedKeys}
        IN  IF io # "ok"
            THEN [fail(SaveErr(io)) EXCEPT !.ledger = SavedFile(oldLedger, approved, io)]
            ELSE [err |-> NoErr,
                  result |-> [matched |-> Len(matched),
                              added |-> Cardinality(added),
                              totalApproved |-> Cardinality(ApprovedKeys(approved)),
                              keys |-> keys],
                  ledger |-> SavedFile(oldLedger, approved, "ok")]))

\* the inputs of the review specification
HomeEn == <<"e","n","/","i","P","a","d","/","h","o","m","e",".","p","n","g">>
HomeEnJPG == <<"e","n","/","i","P","a","d","/","h","o","m","e",".","j","p","g">>
HomeFr == <<"f","r","/","i","P","a","d","/","h","o","m","e",".","p","n","g">>
NotesTxt == <<"n","o","t","e","s",".","t","x","t">>
Good(rel) == ImageFile(rel, 1290, 2796, TRUE)
Small(rel) == ImageFile(rel, 100, 100, TRUE)
Damaged(rel) == ImageFile(rel, 0, 0, FALSE)

FramedDirs ==
    {NotADir,
     Dir({Good(HomeEn), Small(HomeFr)}),
     Dir({Good(HomeEn), Good(HomeEnJPG), Good(NotesTxt)}),
     Dir({Good(HomeFr), Damaged(HomeEn)})}
RawDirs ==
    {UnwalkableDir,
     Dir({Good(HomeEn), Good(HomeFr)})}
ReviewLedgers ==
    {NoFile, Unreadable, InvalidDoc,
     WrappedDoc(<<<<"e","n","|","i","P","a","d","|","h","o","m","e">>>>),
     ListDoc(<<<<"o","l","d","|","k","e","y","|","g","o","n","e">>, <<" ","f","r","|","i","P","a","d","|","h","o","m","e"," ">>>>),
     MapDoc({<<<<"e","n","|","i","P","a","d","|","h","o","m","e">>, FALSE>>, <<<<" ">>, TRUE>>})}

ReviewRequests ==
    [framedDir : {<<>>, FramedDirPath}, rawDir : {<<>>, RawDirPath}]
ReviewApproveRequests ==
    [allReady : BOOLEAN, locale : {<<>>, <<"e","n">>}, device : {<<>>, <<"i","P","a","d">>}]

MaxCalls == 2

NoCall ==
    [op |-> "none", req |-> [none |-> TRUE], err |-> NoErr, result |-> NoReviewResult]

ReviewIdle ==
    /\ framed = MissingDir /\ raw = MissingDir
    /\ manifestFile = NoManifest /\ htmlFile = NoHTML
    /\ reviewCalls = 0 /\ lastCall = NoCall

LedgerIdleButFile ==
    approvals = {} /\ firstLoad = {} /\ lpc = "idle" /\ lerr = NoErr

\* the output directory is new, or holds what GenerateReview wrote at time 0
\* when there was no ledger
ReviewInit ==
    /\ framed \in FramedDirs
    /\ raw \in RawDirs
    /\ ledger \in ReviewLedgers
    /\ \E req \in ReviewRequests, io \in {"ok", "ctx0"} :
        \E r \in {generateReview(req, io, 0, NoManifest, NoHTML, NoFile)} :
          manifestFile = r.manifestFile /\ htmlFile = r.htmlFile
    /\ reviewCalls = 0 /\ lastCall = NoCall

CallRecord(op, req, r) ==
    [op |-> op, req |-> req, err |-> r.err, result |-> r.result]

GenerateReview ==
    /\ reviewCalls < MaxCalls
    /\ \E req \in ReviewRequests, io \in GenerateOutcomes :
        \E r \in {generateReview(req, io, reviewCalls + 1,
                                  manifestFile, htmlFile, ledger)} :
          /\ manifestFile' = r.manifestFile
          /\ htmlFile' = r.htmlFile
          /\ ledger' = r.ledger
          /\ lastCall' = CallRecord("generate", req, r)
    /\ reviewCalls' = reviewCalls + 1
    /\ UNCHANGED <<notReviewVars, framed, raw>>

ApproveReview ==
    /\ reviewCalls < MaxCalls
    /\ \E req \in ReviewApproveRequests, io \in SaveOutcomes :
        \E r \in {approveReview(req, io, manifestFile, ledger)} :
          /\ ledger' = r.ledger
          /\ lastCall' = CallRecord("approve", req, r)
    /\ reviewCalls' = reviewCalls + 1
    /\ UNCHANGED <<notReviewVars, framed, raw, manifestFile, htmlFile>>

ReviewNext == GenerateReview \/ ApproveReview

\* looksLikeLocale and inferLocaleAndDevice called on their own.  A token
\* is up to MaxGroups groups joined by "-" or by "_", bare or with a blank
\* before or after it; a path is a file name under up to MaxDepth directories
MaxGroups == 4
MaxDepth == 3
JoinWith(groups, sep) ==
    [k \in 1..Len(groups) |-> IF k = 1 THEN groups[1] ELSE <<sep>> \o groups[k]]
RECURSIVE Concat(_)
Concat(parts) == IF parts = <<>> THEN <<>> ELSE Head(parts) \o Concat(Tail(parts))
FirstGroups ==
    {<<>>, <<"e">>, <<"e","n">>, <<"e","n","g">>, <<"e","n","g","l">>, <<"e","1">>, <<EAcute>>, <<EAcute, EAcute>>,
     <<"e", EAcute>>}
LaterGroups ==
    {<<>>, <<"x">>, <<"U","S">>, <<"U","1">>, <<"a","b","c","d","e","f","g","h">>, <<"a","b","c","d","e","f","g","h","i">>}
LocaleTokens ==
    {pad[1] \o Concat(JoinWith(<<g>> \o rest, sep)) \o pad[2] :
        g \in FirstGroups,
        rest \in UNION {[1..n -> LaterGroups] : n \in 0..(MaxGroups - 1)},
        sep \in {"-", "_"},
        pad \in {<<<<>>, <<>>>>, <<<<" ">>, <<>>>>, <<<<>>, <<" ">>>>}}
        \cup {<<"z","h","-","H","a","n","s","_","C","N">>, <<"e"," ","n">>}
PathSegments ==
    {<<"e","n">>, <<"i","P","a","d">>, <<"i","P","h","o","n","e","_","A","i","r">>, <<"f","r","-","C","A">>, <<"z","h","_","H","a","n","s","_","C","N">>, <<" ","e","n">>, <<"e","n","-","x">>, <<EAcute>>}
LocalePaths ==
    {Concat(JoinWith(dirs \o <<<<"h","o","m","e",".","p","n","g">>>>, "/")) :
        dirs \in UNION {[1..n -> PathSegments] : n \in 0..MaxDepth}}

LocaleInit ==
    /\ fret = <<>>
    /\ \/ fpc = "looksLikeLocale" /\ farg \in LocaleTokens
       \/ fpc = "inferLocaleAndDevice" /\ farg \in LocalePaths
LooksLikeLocale ==
    /\ fpc = "looksLikeLocale"
    /\ fret' = looksLikeLocale(farg)
    /\ fpc' = "looksLikeLocale returned"
    /\ UNCHANGED <<notCallVars, farg>>
InferLocaleAndDevice ==
    /\ fpc = "inferLocaleAndDevice"
    /\ fret' = inferLocaleAndDevice(farg)
    /\ fpc' = "inferLocaleAndDevice returned"
    /\ UNCHANGED <<notCallVars, farg>>
LocaleNext == LooksLikeLocale \/ InferLocaleAndDevice

\* The file-change classifier called on its own.  An event is a path and one
\* operation of the watcher; the tests of isRelevantChange give the paths.
ChangeOps == {"Create", "Write", "Remove", "Rename", "Chmod"}
ConfigPath == <<"/","p","r","o","j","e","c","t","s","/","s","c","r","e","e","n","s","h","o","t","s","/","c","o","n","f","i","g",".","y","a","m","l">>
AssetDirRaw == <<"/","p","r","o","j","e","c","t","s","/","s","c","r","e","e","n","s","h","o","t","s","/","r","a","w">>
AssetDirIcons == <<"/","p","r","o","j","e","c","t","s","/","s","c","r","e","e","n","s","h","o","t","s","/","i","c","o","n","s">>
ChangedPaths ==
    {ConfigPath,
     <<"/","p","r","o","j","e","c","t","s","/","s","c","r","e","e","n","s","h","o","t","s","/","r","a","w","/","h","o","m","e",".","p","n","g">>,
     <<"/","p","r","o","j","e","c","t","s","/","s","c","r","e","e","n","s","h","o","t","s","/","r","a","w","/","e","n","/","h","o","m","e",".","J","P","G">>,
     <<"/","p","r","o","j","e","c","t","s","/","s","c","r","e","e","n","s","h","o","t","s","/","r","a","w","/","n","o","t","e","s",".","t","x","t">>,
     <<"/","p","r","o","j","e","c","t","s","/","s","c","r","e","e","n","s","h","o","t","s","/","n","o","t","e","s",".","t","x","t">>,
     <<"/","p","r","o","j","e","c","t","s","/","s","c","r","e","e","n","s","h","o","t","s","/","r","a","w","e","s","t","/","h","o","m","e",".","p","n","g">>,
     <<"/","p","r","o","j","e","c","t","s","/","s","c","r","e","e","n","s","h","o","t","s","/","i","c","o","n","s","/","a","p","p",".","p","n","g">>,
     <<"/","p","r","o","j","e","c","t","s","/","s","c","r","e","e","n","s","h","o","t","s","/","h","o","m","e",".","p","n","g">>,
     <<"/","p","r","o","j","e","c","t","s","/","s","c","r","e","e","n","s","h","o","t","s","/","r","a","w","/","c","o","n","f","i","g",".","y","a","m","l">>}
ChangeEvent(name, op, configPath, assetDirs) ==
    [name |-> name, op |-> op, configPath |-> configPath, assetDirs |-> assetDirs]
ChangeEvents ==
    {ChangeEvent(name, op, ConfigPath, assetDirs) :
        name \in ChangedPaths, op \in ChangeOps,
        assetDirs \in {<<>>, <<AssetDirRaw>>, <<AssetDirRaw, AssetDirIcons>>}}

\* the path is the directory or lies below it
Under(name, dir) == HasPrefix(name, dir \o <<"/">>)

\* a classifier that does not look at the operation
AnyOpisRelevantChange(event) ==
    \/ event.name = event.configPath
    \/ /\ isImageFile(event.name)
       /\ \E n \in 1..Len(event.assetDirs) : Under(event.name, event.assetDirs[n])

\* isRelevantChange(event, configPath, assetDirs)
isRelevantChange(event) ==
    /\ event.op \in {"Create", "Write"}
    /\ \/ event.name = event.configPath
       \/ /\ isImageFile(event.name)
          /\ \E n \in 1..Len(event.assetDirs) : Under(event.name, event.assetDirs[n])

ChangeInit ==
    fpc = "isRelevantChange" /\ farg \in ChangeEvents /\ fret = <<>>
IsRelevantChange ==
    /\ fpc = "isRelevantChange"
    /\ fret' = isRelevantChange(farg)
    /\ fpc' = "isRelevantChange returned"
    /\ UNCHANGED <<notCallVars, farg>>

\* the inputs of the entries specification: one GenerateReview over every
\* pair of a framed and a raw tree of at most MaxTreeFiles files
HomeBare == <<"h","o","m","e",".","p","n","g">>
HomeDev == <<"i","P","a","d","/","h","o","m","e",".","p","n","g">>
HomeLoc == <<"e","n","/","h","o","m","e",".","p","n","g">>
MaxTreeFiles == 2
DirsOf(pool) ==
    {Dir(x) : x \in {y \in SUBSET pool :
                        /\ Cardinality(y) <= MaxTreeFiles
                        /\ \A f \in y, g \in y : f.rel = g.rel => f = g}}
FramedTrees ==
    DirsOf({Good(HomeBare), Good(HomeDev), Good(HomeLoc), Good(HomeEn), Good(HomeEnJPG),
            Small(HomeEn), Small(HomeFr)})
RawTrees ==
    {MissingDir, NotADir, UnwalkableDir}
        \cup DirsOf({Good(HomeBare), Good(HomeDev), Good(HomeLoc), Good(HomeEn), Good(HomeFr)})
EntriesLedgers ==
    {NoFile, WrappedDoc(<<<<"e","n","|","i","P","a","d","|","h","o","m","e">>>>)}

\* the output directory is new and the bound leaves room for one call
EntriesInit ==
    /\ framed \in FramedTrees
    /\ raw \in RawTrees
    /\ ledger \in EntriesLedgers
    /\ manifestFile = NoManifest /\ htmlFile = NoHTML
    /\ reviewCalls = MaxCalls - 1 /\ lastCall = NoCall

\* no function is called on its own
CallIdle == fpc = "idle" /\ farg = <<>> /\ fret = <<>>

\* buildRawIndex called on its own on a raw directory that exists
HomePadded == <<" ","h","o","m","e",".","p","n","g">>
MenuEn == <<"e","n","/","i","P","a","d","/","m","e","n","u",".","p","n","g">>
MaxIndexFiles == 4
IndexTrees ==
    {Dir(x) : x \in {y \in SUBSET {Good(HomeBare), Good(HomeDev), Good(HomeEn),
                                   Good(HomeEnJPG), Good(HomeFr), Good(HomePadded),
                                   Good(MenuEn)} :
                        Cardinality(y) <= MaxIndexFiles}}
IndexInit ==
    fpc = "buildRawIndex" /\ farg \in IndexTrees /\ fret = <<>>
BuildRawIndex ==
    /\ fpc = "buildRawIndex"
    /\ fret' = buildRawIndex(farg, TRUE)
    /\ fpc' = "buildRawIndex returned"
    /\ UNCHANGED <<notCallVars, farg>>

----------------------------------------------------------------------------
(* Specifications *)

\* one run of RunPlan on any plan of the pool
Init == PlanInit /\ CoalescerInit /\ MatcherIdle /\ LedgerIdle /\ ReviewIdle /\ CallIdle
Next == PlanNext
Spec == Init /\ [][Next]_vars

\* threads calling Trigger on one coalescer
PlanIdle ==
    /\ plan = NilPlan /\ fs = "ok" /\ pc = "done" /\ i = 0 /\ site = ""
    /\ result = NilResult /\ retErr = NoErr /\ herr = NoErr /\ calls = <<>>
    /\ cancelled = FALSE /\ elapsed = 0 /\ deadline = 0 /\ timer = 0
    /\ woken = "none" /\ started = 0 /\ finished = 0 /\ lastPoll = -1
    /\ suspCancel = -1 /\ lastOutcome = "none"
CoalescerSpecInit == PlanIdle /\ CoalescerInit /\ MatcherIdle /\ LedgerIdle /\ ReviewIdle /\ CallIdle
CoalescerSpec == CoalescerSpecInit /\ [][CoalescerNext]_vars

\* one run of RunPlan on a plan that is a single wait_for step, with and
\* without explicit timeout and poll interval
WaitForBudgets ==
    {<< <<>>, <<>> >>, << <<0>>, <<0>> >>, << <<-1>>, <<-2>> >>, << <<>>, <<5000>> >>,
     << <<3>>, <<2>> >>, << <<3>>, <<>> >>, << <<3>>, <<-2>> >>,
     << <<900>>, <<>> >>, << <<900>>, <<500>> >>}
WaitForSteps ==
    {PlanStep(ActionWaitFor, <<OkText>>, <<>>, <<>>, <<>>, <<>>, b[1], b[2]) :
        b \in WaitForBudgets}
WaitForPlans ==
    {[nil |-> FALSE, version |-> PlanVersion, bundleID |-> BundleID, udid |-> <<>>,
      delay |-> 5, steps |-> <<st>>] : st \in WaitForSteps}
WaitForInit ==
    /\ plan \in WaitForPlans /\ fs = "ok" /\ PlanStart
    /\ CoalescerInit /\ MatcherIdle /\ LedgerIdle /\ ReviewIdle /\ CallIdle
WaitForNext ==
    \/ RunPlanValidate
    \/ RunPlanLoop
    \/ DescribeUIReturn
    \/ TimerFire
    \/ Cancel
    \/ WaitContextReturn
    \/ RunPlanStepDone
WaitForSpec == WaitForInit /\ [][WaitForNext]_vars

\* plans of tap steps over every combination of an absent, a blank and a
\* set label and id
MaxTapSteps == 2
TapSelectors(text) == {<<>>, << <<" ">> >>, <<text>>}
TapSteps ==
    {PlanStep(ActionTap, lbl, id, <<>>, <<>>, <<>>, <<>>, <<>>) :
        lbl \in TapSelectors(OkText), id \in TapSelectors(HomeText)}
TapPlans ==
    {[nil |-> FALSE, version |-> PlanVersion, bundleID |-> BundleID, udid |-> <<>>,
      delay |-> d, steps |-> ss] :
        d \in {0, 5}, ss \in UNION {[1..n -> TapSteps] : n \in 1..MaxTapSteps}}
TapInit ==
    /\ plan \in TapPlans /\ fs = "ok" /\ PlanStart
    /\ CoalescerInit /\ MatcherIdle /\ LedgerIdle /\ ReviewIdle /\ CallIdle
TapNext ==
    \/ RunPlanValidate
    \/ RunPlanLoop
    \/ ExternalReturn
    \/ TimerFire
    \/ Cancel
    \/ WaitContextReturn
    \/ RunPlanStepDone
TapSpec == TapInit /\ [][TapNext]_vars

\* AXeProvider.Capture called directly, as the provider tests do: the request
\* is in farg, and plan holds the screenshot step that carries its name
CaptureRequests ==
    {[bundleID |-> b, udid |-> u, name |-> n] :
        b \in {<<>>, <<" ">>, BundleID, <<" ">> \o BundleID},
        u \in {<<>>, <<" ","S">>},
        n \in {HomeText, OkText}}
CapturePlan(req) ==
    [nil |-> FALSE, version |-> PlanVersion, bundleID |-> req.bundleID, udid |-> req.udid,
     delay |-> 0,
     steps |-> <<PlanStep(ActionScreenshot, <<>>, <<>>, <<>>, <<req.name>>, <<>>, <<>>, <<>>)>>]
CaptureInit ==
    /\ \E req \in CaptureRequests : farg = <<req>> /\ plan = CapturePlan(req)
    /\ fpc = "idle" /\ fret = <<>>
    /\ fs = "ok" /\ pc = "Capture" /\ i = 1 /\ site = "" /\ result = NilResult
    /\ retErr = NoErr /\ herr = NoErr /\ calls = <<>> /\ cancelled = FALSE
    /\ elapsed = 0 /\ deadline = 0 /\ timer = 0 /\ woken = "none"
    /\ started = 0 /\ finished = 0 /\ lastPoll = -1 /\ suspCancel = -1
    /\ lastOutcome = "none"
    /\ CoalescerInit /\ MatcherIdle /\ LedgerIdle /\ ReviewIdle
CaptureCall ==
    /\ pc = "Capture"
    /\ Capture(farg[1])
    /\ UNCHANGED <<notPlanVars, lastOutcome, plan, fs, i, result, retErr, cancelled, elapsed,
                   deadline, started, finished, lastPoll, suspCancel>>
CaptureNext ==
    \/ CaptureCall
    \/ CaptureLaunchReturn
    \/ ScreenshotReturn
    \/ Cancel
CaptureSpec == CaptureInit /\ [][CaptureNext]_vars

MatcherSpecInit == PlanIdle /\ CoalescerInit /\ MatcherInit /\ LedgerIdle /\ ReviewIdle /\ CallIdle
MatcherSpec == MatcherSpecInit /\ [][AxeMatch]_vars

\* one ledger file loaded, saved and loaded again
LedgerSpecInit == PlanIdle /\ CoalescerInit /\ MatcherIdle /\ LedgerInit /\ ReviewIdle /\ CallIdle
LedgerSpec == LedgerSpecInit /\ [][LedgerNext]_vars

\* GenerateReview and ApproveReview called in any order on one output directory
ReviewSpecInit ==
    PlanIdle /\ CoalescerInit /\ MatcherIdle /\ LedgerIdleButFile /\ ReviewInit /\ CallIdle
ReviewSpec == ReviewSpecInit /\ [][ReviewNext]_vars

\* one GenerateReview over richer trees
EntriesSpecInit ==
    PlanIdle /\ CoalescerInit /\ MatcherIdle /\ LedgerIdleButFile /\ EntriesInit /\ CallIdle
EntriesSpec == EntriesSpecInit /\ [][GenerateReview]_vars

\* two GenerateReview calls over framed trees that hold images of every
\* extension, in either case, next to files that are no images
ShotUpper == <<"B",".","P","N","G">>
ShotWebp == <<"a",".","w","e","b","p">>
ShotJpeg == <<"e","n","/","a",".","j","p","e","g">>
ShotBackup == <<"a",".","p","n","g",".","b","a","k">>
WalkTrees ==
    DirsOf({Good(ShotUpper), Good(ShotWebp), Good(ShotJpeg), Good(ShotBackup),
            Good(NotesTxt), Good(HomeBare), Good(HomeEnJPG)})
WalkInit ==
    /\ framed \in WalkTrees
    /\ raw \in {MissingDir, Dir({Good(HomeBare)})}
    /\ ledger = NoFile
    /\ manifestFile = NoManifest /\ htmlFile = NoHTML
    /\ reviewCalls = MaxCalls - 2 /\ lastCall = NoCall
WalkSpecInit ==
    PlanIdle /\ CoalescerInit /\ MatcherIdle /\ LedgerIdleButFile /\ WalkInit /\ CallIdle
WalkSpec == WalkSpecInit /\ [][GenerateReview]_vars

\* SaveApprovals called on its own with any map: up to MaxLedgerKeys keys,
\* bare, padded or blank, each true or false
ApprovalMaps ==
    {{<<k, b[k]>> : k \in ks} :
        ks \in {x \in SUBSET LedgerKeys : Cardinality(x) <= MaxLedgerKeys},
        b \in [LedgerKeys -> BOOLEAN]}
SaveInit ==
    fpc = "SaveApprovals" /\ farg \in ApprovalMaps /\ fret = <<>>
SaveApprovals ==
    /\ fpc = "SaveApprovals"
    /\ \E io \in SaveOutcomes :
          fret' = [file |-> SavedFile(NoFile, farg, io), err |-> SaveErr(io)]
    /\ fpc' = "SaveApprovals returned"
    /\ UNCHANGED <<notCallVars, farg>>
SaveSpecInit ==
    PlanIdle /\ CoalescerInit /\ MatcherIdle /\ LedgerIdle /\ ReviewIdle /\ SaveInit
SaveSpec == SaveSpecInit /\ [][SaveApprovals]_vars

\* looksLikeLocale on every token and inferLocaleAndDevice on every path
LocaleSpecInit ==
    PlanIdle /\ CoalescerInit /\ MatcherIdle /\ LedgerIdle /\ ReviewIdle /\ LocaleInit
LocaleSpec == LocaleSpecInit /\ [][LocaleNext]_vars

\* isRelevantChange on every event
ChangeSpecInit ==
    PlanIdle /\ CoalescerInit /\ MatcherIdle /\ LedgerIdle /\ ReviewIdle /\ ChangeInit
ChangeSpec == ChangeSpecInit /\ [][IsRelevantChange]_vars

\* buildRawIndex over every raw tree of at most MaxIndexFiles files
IndexSpecInit ==
    PlanIdle /\ CoalescerInit /\ MatcherIdle /\ LedgerIdle /\ ReviewIdle /\ IndexInit
IndexSpec == IndexSpecInit /\ [][BuildRawIndex]_vars

\* the same threads, scheduled fairly: a thread inside Trigger keeps taking
\* its steps (f terminates, the mutex is handed over); calling Trigger at all
\* is up to the caller
TriggerStep(t) ==
    \/ LockPending(t)
    \/ SetPending(t)
    \/ FStart(t)
    \/ FEnd(t)
    \/ LockCheck(t)
    \/ CheckPending(t)
    \/ Release(t)
CoalescerFairSpec == CoalescerSpec /\ \A t \in Threads : SF_vars(TriggerStep(t))

----------------------------------------------------------------------------
(* Properties of the plan engine, checked under Spec *)

CallsOfStep(k) == {c \in 1..Len(calls) : calls[c].step = k}
CallsWithOp(op) == {c \in 1..Len(calls) : calls[c].op = op}
StepsWithAction(a, n) == {k \in 1..n : StepActionOf(k) = a}

\* C1: when the handler of step k is the first to fail, RunPlan returns a
\* RunResult with exactly k step results, the first k-1 ok and the k-th error,
\* and the error "step k (<action>): <cause>"; no handler after k was started
\* and no process of a later step was run.
C1_StopsAtFirstFailure ==
    (pc = "done" /\ herr # NoErr) =>
        LET k == finished IN
        /\ ~result.nil
        /\ Len(result.steps) = k
        /\ \A j \in 1..k : result.steps[j].index = j
        /\ \A j \in 1..(k - 1) : result.steps[j].status = "ok"
        /\ result.steps[k].status = "error"
        /\ result.steps[k].error = herr
        /\ retErr = <<Layer("step", k, NormalizeAction(plan.steps[k].action), "")>> \o herr
        /\ started = k
        /\ \A c \in 1..Len(calls) : calls[c].step <= k

C1_Witness ==
    /\ pc = "done" /\ herr # NoErr
    /\ Len(plan.steps) = 3 /\ finished = 2
    /\ plan.steps[3] = StepLaunch

\* C7: for a nil plan, a plan validatePlan rejects or an output directory that
\* cannot be resolved or created, RunPlan returns an error and a nil
\* RunResult, and no step handler is started and no process is run.
PlanRejected == plan.nil \/ validatePlan(plan) # NoErr \/ fs # "ok"

C7_ValidationBeforeSteps ==
    PlanRejected =>
        /\ started = 0
        /\ calls = <<>>
        /\ result.nil
        /\ pc \in {"RunPlan", "done"}
        /\ pc = "done" => retErr # NoErr

C7_Witness ==
    /\ pc = "done"
    /\ ~plan.nil /\ plan.version # PlanVersion /\ fs = "ok"
    /\ Len(plan.steps) = 3
    /\ retErr = VersionErr

\* C8: the steps of a plan run one at a time in plan order: at most one
\* handler is active; the handler of a step is started only when every earlier
\* handler has returned nil (and, where the post-action delay applies, its
\* timer has fired); the processes run are, in order, those of a prefix of
\* the step list.
OpOfAction(a) ==
    CASE a = ActionLaunch -> "launch"
      [] a = ActionTap -> "tap"
      [] a = ActionType -> "type"
      [] a = ActionKeySequence -> "key-sequence"
      [] a = ActionWaitFor -> "describe-ui"
      [] a = ActionScreenshot -> "screenshot"
      [] OTHER -> "none"

DelayApplies(k) ==
    plan.delay > 0 /\ StepActionOf(k) # ActionWait /\ StepActionOf(k) # ActionWaitFor

SequentialState ==
    /\ started - finished \in {0, 1}
    /\ started - finished = 1 <=> pc \in {"exec", "ret"} \/ (pc = "sleep" /\ site # "delay")
    /\ \A a, b \in 1..Len(calls) : a < b => calls[a].step <= calls[b].step
    /\ \A c \in 1..Len(calls) :
          /\ calls[c].step \in 1..started
          /\ calls[c].op = OpOfAction(StepActionOf(calls[c].step))
    /\ \A k \in 1..Len(result.steps) :
          result.steps[k].status = "ok" =>
             IF StepActionOf(k) = ActionWait THEN CallsOfStep(k) = {}
             ELSE IF StepActionOf(k) = ActionWaitFor THEN CallsOfStep(k) # {}
             ELSE Cardinality(CallsOfStep(k)) = 1

HandlerStartsInOrder ==
    started' = started + 1 =>
        /\ finished = started
        /\ i = started + 1
        /\ Len(result.steps) = started
        /\ \A k \in 1..started : result.steps[k].status = "ok"
        /\ (started >= 1 /\ DelayApplies(started)) =>
              (site = "delay" /\ woken = "timer" /\ timer = plan.delay)

C8_StrictlySequential == [](SequentialState) /\ [][HandlerStartsInOrder]_vars

C8_Witness ==
    /\ pc = "done" /\ retErr = NoErr
    /\ plan.delay > 0
    /\ plan.steps = <<StepTap, StepWaitFor, StepScreenshot>>
    /\ Len(calls) >= 4

\* C9: a screenshot step never launches the app: every launch process belongs
\* to a launch step, a launch step runs at most one and a completed one
\* exactly one, and a completed screenshot step runs exactly one screenshot.
C9_ScreenshotNeverLaunches ==
    /\ \A c \in CallsWithOp("launch") : StepActionOf(calls[c].step) = ActionLaunch
    /\ \A k \in StepsWithAction(ActionLaunch, started) :
          Cardinality(CallsOfStep(k)) <= 1
    /\ \A k \in 1..Len(result.steps) :
          (result.steps[k].status = "ok"
             /\ StepActionOf(k) \in {ActionLaunch, ActionScreenshot}) =>
                /\ Cardinality(CallsOfStep(k)) = 1
                /\ \A c \in CallsOfStep(k) : calls[c].op = OpOfAction(StepActionOf(k))
    /\ (pc = "done" /\ retErr = NoErr) =>
          /\ Cardinality(CallsWithOp("launch")) =
                Cardinality(StepsWithAction(ActionLaunch, Len(plan.steps)))
          /\ Cardinality(CallsWithOp("screenshot")) =
                Cardinality(StepsWithAction(ActionScreenshot, Len(plan.steps)))

C9_Witness ==
    /\ pc = "done" /\ retErr = NoErr
    /\ plan.steps = <<StepLaunch, StepScreenshot, StepScreenshot>>
    /\ Cardinality(CallsWithOp("launch")) = 1
    /\ Cardinality(CallsWithOp("screenshot")) = 2

\* C10: once ctx is cancelled while the engine is blocked in waitContext (the
\* sleep of a wait step, the poll sleep of wait_for, the post-action delay),
\* no further handler is started, no further process is run, and RunPlan
\* returns a non-nil error that wraps context.Canceled.
C10_CancelAbortsPlan ==
    suspCancel >= 0 =>
        /\ started = suspCancel
        /\ pc \in {"sleep", "ret", "done"}
        /\ pc = "sleep" => woken = "ctx"
        /\ pc = "done" => (retErr # NoErr /\ IsCancel(retErr))

C10_Witness ==
    /\ pc = "done" /\ suspCancel >= 0
    /\ site = "poll"
    /\ started < Len(plan.steps)
    /\ IsCancel(retErr)

----------------------------------------------------------------------------
(* Properties of the coalescer, checked under CoalescerSpec *)

Quiescent == \A t \in Threads : tpc[t] = "idle"

\* C2: at most one execution of f is in progress in every reachable state.
C2_MutualExclusion ==
    /\ Cardinality({t \in Threads : tpc[t] = "f"}) <= 1
    /\ concurrent <= 1
    /\ maxConcurrent <= 1

C2_Witness ==
    /\ fExecuting
    /\ runCount >= 2
    /\ \E t \in Threads : tpc[t] = "setPending"
    /\ maxConcurrent = 1

\* C3: if n >= 1 Trigger calls arrive while the first run of f is in progress
\* and none at any other time, exactly one more run starts: 2 runs in total.
C3_BurstCollapse ==
    (Quiescent /\ duringRun >= 1 /\ triggers = 1 + duringRun) => runCount = 2

\* C4: no Trigger call is lost: with f terminating and the threads scheduled
\* fairly, every Trigger call made is eventually followed by a start of f
\* (unserved holds the calls made since the last start of f).
C4_NoLostTrigger == (unserved # {}) ~> (unserved = {})

\* C5 as stated: a Trigger call made while f is not executing runs f itself
\* before it returns.
C5_RunsWhenNoRunOfF ==
    \A t \in Threads :
        (callState[t].made /\ ~callState[t].fExec) =>
            /\ won[t]
            /\ tpc[t] = "idle" => ranSelf[t] >= 1

\* C5, amended: a Trigger call made while no thread owns the coalescer (the
\* in-flight atomic is clear) goes straight to f, in the calling thread, and
\* does not return before it has run f.
C5_RunsWhenNotOwned ==
    \A t \in Threads :
        (callState[t].made /\ ~callState[t].owned) =>
            /\ won[t]
            /\ ranSelf[t] = 0 => tpc[t] = "run"
            /\ tpc[t] = "idle" => ranSelf[t] >= 1

C5_Witness ==
    \E t \in Threads :
        /\ callState[t].made /\ ~callState[t].owned
        /\ tpc[t] = "idle" /\ ranSelf[t] >= 1
        /\ runCount >= 2

\* C6: a Trigger call made while another thread's run of f is in progress
\* never runs f itself and never waits for f: it only takes the mutex, which
\* is never held across a run of f, sets the marker and returns.
C6_TriggerDoesNotBlock ==
    /\ \A t \in Threads :
          (callState[t].made /\ callState[t].fExec) =>
              /\ ~won[t]
              /\ ranSelf[t] = 0
              /\ tpc[t] \in {"lockPending", "setPending", "idle"}
    /\ mu # 0 => tpc[mu] \in {"setPending", "check"}

C6_Witness ==
    \E t, u \in Threads :
        /\ tpc[u] = "f"
        /\ tpc[t] = "idle"
        /\ callState[t].made /\ callState[t].fExec
        /\ callState[t].run = runCount
        /\ pending

----------------------------------------------------------------------------
(* Properties of wait_for, checked under WaitForSpec *)

InWaitFor == i \in 1..Len(plan.steps) /\ StepActionOf(i) = ActionWaitFor
IsTimeout(err) == err # NoErr /\ err[Len(err)].kind = "wait_for timed out"

\* C11: a wait_for step returns its timeout error only when at least its
\* timeout has elapsed since the step began; every poll but the first starts
\* from the poll sleep when its timer has fired, that timer runs for the poll
\* interval, and two consecutive polls start at least that interval apart.
TimeoutNotEarly ==
    (InWaitFor /\ pc \in {"ret", "done"} /\ IsTimeout(herr)) =>
        elapsed >= EffectiveTimeout(plan.steps[i])

PollsApart ==
    /\ (pc' = "exec" /\ pc # "exec" /\ site' = "describe-ui") =>
          \/ pc = "loop"
          \/ /\ pc = "sleep" /\ site = "poll" /\ woken = "timer"
             /\ timer = EffectivePoll(plan.steps[i])
             /\ elapsed' - lastPoll >= EffectivePoll(plan.steps[i])
    /\ (pc = "sleep" /\ site = "poll" /\ woken = "none" /\ woken' = "timer") =>
          elapsed' - elapsed >= EffectivePoll(plan.steps[i])

C11_WaitForTiming == [](TimeoutNotEarly) /\ [][PollsApart]_vars

C11_Witness ==
    /\ pc = "done" /\ InWaitFor
    /\ plan.steps[1].timeoutMS = <<>> /\ plan.steps[1].pollIntervalMS = <<>>
    /\ herr = TimeoutErr(DefaultTimeoutMS)
    /\ lastPoll > DefaultTimeoutMS - DefaultPollIntervalMS
    /\ ~cancelled

\* C12: a wait_for handler returns in one of four ways, each with its own
\* error value: nil after a poll that matched; the timeout error naming the
\* effective timeout after a poll that did not match; the command error or the
\* JSON parse error of the poll that failed, which is the last poll made (a
\* further poll only ever follows a clean miss); context.Canceled from the
\* poll sleep.  A cancel that arrives during the poll sleep gives
\* context.Canceled, never the timeout error.
WaitForReturn(err, st) ==
    \/ err = NoErr /\ lastOutcome = "match"
    \/ err = TimeoutErr(EffectiveTimeout(st)) /\ lastOutcome = "miss"
    \/ err = CmdErr("axe", ExitErr) /\ lastOutcome = "exit"
    \/ err = CmdErr("axe", CanceledErr) /\ cancelled /\ lastOutcome \in {"none", "miss", "canceled"}
    \/ err = ParseErr /\ lastOutcome = "bad"
    \/ err = CanceledErr /\ cancelled /\ site = "poll" /\ lastOutcome = "miss"

C12_WaitForOutcomes ==
    /\ (InWaitFor /\ pc = "ret") =>
          /\ WaitForReturn(herr, plan.steps[i])
          /\ (suspCancel = started /\ site = "poll") => (herr = CanceledErr /\ ~IsTimeout(herr))
          /\ IsTimeout(herr) => ~IsCancel(herr) /\ herr[1].cmd = ""
    /\ (InWaitFor /\ pc = "sleep") => (site = "poll" /\ lastOutcome = "miss")
    /\ (InWaitFor /\ pc = "exec" /\ lastPoll > 0) => lastOutcome = "miss"

C12_Witness ==
    /\ InWaitFor /\ pc = "ret"
    /\ suspCancel = started /\ site = "poll"
    /\ herr = CanceledErr
    /\ DeadlinePassed(elapsed + timer, deadline)

----------------------------------------------------------------------------
(* Properties of the matcher, checked under MatcherSpec *)

\* every node of a tree: the tree itself, the values of objects and the
\* elements of arrays, at any depth
RECURSIVE SubNodes(_)
SubNodes(n) ==
    {n} \cup
    (IF n.type = "object" THEN UNION {SubNodes(n.items[k][2]) : k \in 1..Len(n.items)}
     ELSE IF n.type = "array" THEN UNION {SubNodes(n.items[k]) : k \in 1..Len(n.items)}
     ELSE {})

TargetOf(field) == TrimSpace(stringValue(field))
TextOf(n, key) == toString(MapGet(n, key))
ContainsFold(s, sub) == Contains(ToLower(s), ToLower(sub))

NodeHit(n, step) ==
    \/ TargetOf(step.id) # <<>> /\ EqualFold(TextOf(n, AXUniqueId), TargetOf(step.id))
    \/ TargetOf(step.label) # <<>> /\ EqualFold(TextOf(n, AXLabel), TargetOf(step.label))
    \/ /\ TargetOf(step.contains) # <<>>
       /\ \/ ContainsFold(TextOf(n, AXLabel), TargetOf(step.contains))
          \/ ContainsFold(TextOf(n, AXValue), TargetOf(step.contains))

----------------------------------------------------------------------------
(* Effective timeout and poll interval, checked under WaitForSpec *)

\* the deadline and the poll timer runWaitForStep is using
UsesTimeout(ms) == (InWaitFor /\ pc \in {"exec", "sleep"}) => deadline = ms
UsesPoll(ms) == (InWaitFor /\ pc = "sleep") => timer = ms

\* C14 as stated: the effective timeout is the step's explicit timeout
\* whenever one is given and 15000 ms otherwise; the effective poll interval
\* is the explicit poll interval whenever one is given and 400 ms otherwise.
C14_ExplicitOverrides ==
    InWaitFor =>
        LET st == plan.steps[i] IN
        /\ UsesTimeout(IF st.timeoutMS # <<>> THEN st.timeoutMS[1] ELSE 15000)
        /\ UsesPoll(IF st.pollIntervalMS # <<>> THEN st.pollIntervalMS[1] ELSE 400)

\* C14, amended: the explicit value is used when it is given and positive;
\* when it is absent, zero or negative the default is used.
C14_PositiveOverrides ==
    InWaitFor =>
        LET st == plan.steps[i] IN
        /\ UsesTimeout(IF st.timeoutMS # <<>> /\ st.timeoutMS[1] > 0
                       THEN st.timeoutMS[1] ELSE 15000)
        /\ UsesPoll(IF st.pollIntervalMS # <<>> /\ st.pollIntervalMS[1] > 0
                    THEN st.pollIntervalMS[1] ELSE 400)

C14_Witness ==
    /\ InWaitFor /\ pc = "sleep"
    /\ plan.steps[i].timeoutMS = <<0>> /\ plan.steps[i].pollIntervalMS = <<0>>
    /\ deadline = 15000 /\ timer = 400

----------------------------------------------------------------------------
(* Properties of the ledger, checked under LedgerSpec *)

IsLedgerKey(k) == k # <<>> /\ TrimSpace(k) = k

\* C18: a ledger file in any of the three encodings, loaded, saved and loaded
\* again, gives the approved keys of the first load.
C18_RoundTrip ==
    (lpc = "done" /\ ledger.kind = "wrapped") => ApprovedKeys(approvals) = firstLoad

\* C19: every key loadApprovals returns and every key SaveApprovals writes is
\* trimmed and not empty.
C19_KeysTrimmedNonEmpty ==
    /\ \A k \in ApprovedKeys(approvals) : IsLedgerKey(k)
    /\ lpc \in {"reload", "done"} =>
          \A j \in 1..Len(ledger.list) : IsLedgerKey(ledger.list[j])

----------------------------------------------------------------------------
(* Properties of the review pipeline, checked under ReviewSpec *)

\* a step that is one call of GenerateReview or ApproveReview
ReviewCall(op) == reviewCalls' = reviewCalls + 1 /\ lastCall'.op = op
ApprovedIn(file) == ApprovedKeys(loadApprovals(file).approvals)
EntriesOf(file) == IF file.kind = "manifest" THEN file.entries ELSE <<>>

\* the entries a selector asks for, as the contract words it
Selected(entries, req) ==
    SelectSeq(entries,
              LAMBDA e :
                  IF req.allReady THEN e.status = reviewStatusReady
                  ELSE /\ req.locale # <<>> => e.locale = req.locale
                       /\ req.device # <<>> => e.device = req.device)
KeysOf(entries) == {entries[n].key : n \in 1..Len(entries)}

\* C15: a successful ApproveReview persists the union of the approved keys
\* and the matched keys, removes no approved key, reports Matched, Added and
\* TotalApproved accordingly, and when repeated leaves the ledger as it is
\* with Added = 0.
C15_ApproveUnion ==
    [][(ReviewCall("approve") /\ lastCall'.err = NoErr) =>
          LET before == ApprovedIn(ledger)
              after == ApprovedIn(ledger')
              sel == Selected(EntriesOf(manifestFile), lastCall'.req)
          IN  /\ after = before \cup KeysOf(sel)
              /\ lastCall'.result.matched = Len(sel)
              /\ lastCall'.result.added = Cardinality(KeysOf(sel) \ before)
              /\ lastCall'.result.totalApproved = Cardinality(after)
              /\ (lastCall.op = "approve" /\ lastCall.err = NoErr
                    /\ lastCall.req = lastCall'.req)
                    => (ledger' = ledger /\ lastCall'.result.added = 0)]_vars

\* C16: the entries ApproveReview matches are those the selector names: with
\* all-ready the entries whose status is ready, otherwise the entries whose
\* locale and device equal the ones given, whatever their status.
C16_SelectorDecides ==
    [][(ReviewCall("approve") /\ lastCall'.err = NoErr) =>
          LET sel == Selected(EntriesOf(manifestFile), lastCall'.req)
          IN  /\ lastCall'.result.keys = [n \in 1..Len(sel) |-> sel[n].key]
              /\ KeysOf(sel) \subseteq ApprovedIn(ledger')]_vars

\* all-ready approved the ready entry and left the invalid_size entry out;
\* a locale filter approved an entry that is not ready
C16_Witness ==
    /\ lastCall.op = "approve" /\ lastCall.err = NoErr
    /\ lastCall.result.matched = 1
    /\ \E n \in 1..Len(EntriesOf(manifestFile)) :
          IF lastCall.req.allReady
          THEN /\ manifestFile.entries[n].status = reviewStatusInvalidSize
               /\ manifestFile.entries[n].key \notin ApprovedIn(ledger)
          ELSE /\ manifestFile.entries[n].status # reviewStatusReady
               /\ lastCall.result.keys = <<manifestFile.entries[n].key>>

NoSelector(req) == ~req.allReady /\ req.locale = <<>> /\ req.device = <<>>

\* C17: ApproveReview without a selector returns the validation error and
\* changes no file.
C17_NoSelectorNoWork ==
    [][(ReviewCall("approve") /\ NoSelector(lastCall'.req)) =>
          /\ lastCall'.err = SelectorErr
          /\ ledger' = ledger
          /\ manifestFile' = manifestFile
          /\ htmlFile' = htmlFile]_vars

\* a call without a selector was refused although manifest and ledger were
\* there to work on
C17_Witness ==
    /\ lastCall.op = "approve" /\ NoSelector(lastCall.req)
    /\ lastCall.err = SelectorErr
    /\ manifestFile.kind = "manifest" /\ manifestFile.entries # <<>>
    /\ ledger.kind = "list"

\* C20 as stated: after a successful GenerateReview the ledger file exists.
C20_LedgerCreated ==
    (lastCall.op = "generate" /\ lastCall.err = NoErr) => ledger.kind # "absent"

\* C20: GenerateReview leaves the ledger file as it found it; a ledger that
\* is absent stays absent and no entry of the manifest is approved.
C20_LedgerUntouched ==
    [][ReviewCall("generate") =>
          /\ ledger' = ledger
          /\ (lastCall'.err = NoErr /\ ledger = NoFile) =>
                \A n \in 1..Len(manifestFile'.entries) :
                    ~manifestFile'.entries[n].approved]_vars

\* a successful GenerateReview with entries and still no ledger file
C20_Witness ==
    /\ lastCall.op = "generate" /\ lastCall.err = NoErr
    /\ ledger = NoFile
    /\ manifestFile.kind = "manifest" /\ manifestFile.entries # <<>>

----------------------------------------------------------------------------
\* C21: a ledger file that does not exist is read as the empty ledger
\* without error; a ledger that cannot be read, or that is in none of the
\* three encodings, makes loadApprovals return an error, and a GenerateReview
\* that gets as far as reading it returns that error and leaves the manifest
\* and the HTML report as they were.
LedgerFailure(file) == file.kind \in {"unreadable", "invalid"}
\* what GenerateReview may return before it reads the ledger, lines 346-383
ErrsBeforeLedger ==
    {CanceledErr, ReviewErr("framed directory is required"),
     ReviewErr("resolve framed directory"), ReviewErr("read framed directory"),
     ReviewErr("framed directory must be a directory"),
     ReviewErr("resolve output directory"), ReviewErr("create output directory")}

C21_LedgerErrorStopsReview ==
    [][ReviewCall("generate") =>
        /\ ledger.kind = "absent" =>
              /\ loadApprovals(ledger) = LoadResult(NoErr, {})
              /\ lastCall'.err \notin {ReadErr, ParseApprovalsErr}
              /\ lastCall'.err = NoErr =>
                    \A n \in 1..Len(manifestFile'.entries) :
                        ~manifestFile'.entries[n].approved
        /\ LedgerFailure(ledger) <=> loadApprovals(ledger).err # NoErr
        /\ LedgerFailure(ledger) =>
              /\ lastCall'.err \in ErrsBeforeLedger \cup {loadApprovals(ledger).err}
              /\ manifestFile' = manifestFile /\ htmlFile' = htmlFile
        /\ lastCall'.err \in {ReadErr, ParseApprovalsErr} =>
              lastCall'.err = loadApprovals(ledger).err]_vars

\* a GenerateReview stopped by a ledger in no known encoding, in an output
\* directory that already holds a manifest and a report
C21_Witness ==
    /\ lastCall.op = "generate"
    /\ lastCall.err = ParseApprovalsErr
    /\ ledger = InvalidDoc
    /\ manifestFile.kind = "manifest" /\ htmlFile # NoHTML

----------------------------------------------------------------------------
\* C22: in every manifest GenerateReview produces, an entry's status is
\* decided by two facts only, whether its raw path is non-empty and whether
\* at least one display type matches its size: ready when both hold,
\* missing_raw when only the size is valid, invalid_size when only the raw
\* exists, missing_raw_invalid_size when neither holds.
StatusFor(hasRaw, hasType) ==
    CASE hasRaw /\ hasType -> <<"r","e","a","d","y">>
      [] ~hasRaw /\ hasType -> <<"m","i","s","s","i","n","g","_","r","a","w">>
      [] hasRaw /\ ~hasType -> <<"i","n","v","a","l","i","d","_","s","i","z","e">>
      [] OTHER -> <<"m","i","s","s","i","n","g","_","r","a","w","_","i","n","v","a","l","i","d","_","s","i","z","e">>

C22_StatusFromRawAndSize ==
    manifestFile.kind = "manifest" =>
        \A n \in 1..Len(manifestFile.entries) :
            LET e == manifestFile.entries[n]
            IN  e.status = StatusFor(e.rawPath # <<>>, Len(e.displayTypes) > 0)

\* a manifest that holds all four statuses
C22_Witness ==
    /\ manifestFile.kind = "manifest"
    /\ lastCall.op = "generate"
    /\ \E a \in {TRUE, FALSE}, b \in {TRUE, FALSE} :
         \E n, m \in 1..Len(manifestFile.entries) :
            /\ manifestFile.entries[n].status = StatusFor(a, b)
            /\ manifestFile.entries[m].status = StatusFor(~a, ~b)

----------------------------------------------------------------------------
\* C23: when the raw directory is not given, does not exist or is not a
\* directory, GenerateReview still succeeds (nothing but a fault of the
\* environment, a blank framed directory or an unusable framed tree or
\* ledger stops it), every entry has an empty raw path and raw relative
\* path, every status is missing_raw or missing_raw_invalid_size, and the
\* summary's missing_raw count is the number of entries.
RawUnavailable(req) ==
    TrimSpace(req.rawDir) = <<>> \/ raw.kind \in {"missing", "file"}
\* the errors only a fault of the environment produces
EnvFaultErrs ==
    {CanceledErr, ReviewErr("resolve framed directory"),
     ReviewErr("resolve output directory"), ReviewErr("create output directory"),
     ReviewErr("resolve raw directory"), ReviewErr("write manifest JSON"),
     ReviewErr("render review HTML template"), ReviewErr("write review HTML")}
FramedUsable(req) ==
    /\ TrimSpace(req.framedDir) # <<>>
    /\ framed.kind = "dir"
    /\ \A f \in framed.files : isImageFile(f.rel) => f.readable

C23_NoRawStillSucceeds ==
    [][(ReviewCall("generate") /\ RawUnavailable(lastCall'.req)) =>
        /\ (FramedUsable(lastCall'.req) /\ ~LedgerFailure(ledger)) =>
              lastCall'.err \in {NoErr} \cup EnvFaultErrs
        /\ lastCall'.err = NoErr =>
              /\ \A n \in 1..Len(manifestFile'.entries) :
                    LET e == manifestFile'.entries[n]
                    IN  /\ e.rawPath = <<>> /\ e.rawRelative = <<>>
                        /\ e.status \in {<<"m","i","s","s","i","n","g","_","r","a","w">>,
                                         <<"m","i","s","s","i","n","g","_","r","a","w","_","i","n","v","a","l","i","d","_","s","i","z","e">>}
              /\ manifestFile'.summary.missingRaw = Len(manifestFile'.entries)
              /\ manifestFile'.summary.total = Len(manifestFile'.entries)
              /\ lastCall'.result.missingRaw = lastCall'.result.total]_vars

\* a successful GenerateReview that was given a raw directory that is a
\* plain file, over framed files of valid and of invalid size
C23_Witness ==
    /\ lastCall.op = "generate" /\ lastCall.err = NoErr
    /\ lastCall.req.rawDir # <<>> /\ raw = NotADir
    /\ manifestFile.kind = "manifest"
    /\ \E n, m \in 1..Len(manifestFile.entries) :
          /\ manifestFile.entries[n].status = <<"m","i","s","s","i","n","g","_","r","a","w">>
          /\ manifestFile.entries[m].status = <<"m","i","s","s","i","n","g","_","r","a","w","_","i","n","v","a","l","i","d","_","s","i","z","e">>

----------------------------------------------------------------------------
\* C24: after buildRawIndex has processed any sequence of raw files, the
\* bare-id mapping of a screenshot id (ids taken as the index keys them,
\* without surrounding white space) is present if and only if exactly one
\* raw file has that id, and then it names that file; once two files have
\* collided on an id the mapping stays absent however many files with that
\* id follow; and the review-key mapping locale|device|id of every file is
\* present.  It holds after each file of the sequence, not only at the end.
IdOf(rel) == TrimSpace(TrimSuffix(Base(rel), Ext(rel)))
WithID(rawFiles, id) == {n \in 1..Len(rawFiles) : IdOf(rawFiles[n]) = id}
ReviewKeyOf(rel) ==
    rawIndexReviewKey(inferLocaleAndDevice(rel)[1], inferLocaleAndDevice(rel)[2],
                      TrimSuffix(Base(rel), Ext(rel)))
IndexedRight(rawFiles, index) ==
    /\ \A n \in 1..Len(rawFiles) :
          LET id == IdOf(rawFiles[n])
          IN  /\ MapHas(index, rawIndexScreenshotKey(id))
                    <=> Cardinality(WithID(rawFiles, id)) = 1
              /\ Cardinality(WithID(rawFiles, id)) = 1
                    => MapAt(index, rawIndexScreenshotKey(id)) = rawFiles[n]
              /\ MapHas(index, ReviewKeyOf(rawFiles[n]))
    /\ \A pr \in index : \E n \in 1..Len(rawFiles) :
          /\ pr[2] = rawFiles[n]
          /\ pr[1] \in {rawIndexScreenshotKey(IdOf(rawFiles[n])), ReviewKeyOf(rawFiles[n])}

C24_BareIDOnlyWhenUnique ==
    fpc = "buildRawIndex returned" =>
        LET rawFiles == collectImageFiles(farg).files
        IN  /\ fret.err = NoErr
            /\ IndexedRight(rawFiles, fret.index)
            /\ \A n \in 0..Len(rawFiles) :
                  IndexedRight(SubSeq(rawFiles, 1, n),
                               IndexRawFiles(SubSeq(rawFiles, 1, n), {}, {}))

\* an index built from three files with one id and one file with another
C24_Witness ==
    /\ fpc = "buildRawIndex returned"
    /\ LET rawFiles == collectImageFiles(farg).files
       IN  \E n, m \in 1..Len(rawFiles) :
             /\ Cardinality(WithID(rawFiles, IdOf(rawFiles[n]))) >= 3
             /\ ~MapHas(fret.index, rawIndexScreenshotKey(IdOf(rawFiles[n])))
             /\ Cardinality(WithID(rawFiles, IdOf(rawFiles[m]))) = 1
             /\ MapAt(fret.index, rawIndexScreenshotKey(IdOf(rawFiles[m]))) = rawFiles[m]

----------------------------------------------------------------------------
\* C25: for each framed file the raw match is the raw file indexed under
\* the framed entry's own review key if there is one; otherwise the
\* unambiguous raw candidate for the bare id, if it is accepted; otherwise
\* the entry has no raw.
RawWasRead ==
    /\ lastCall.op = "generate" /\ lastCall.err = NoErr
    /\ TrimSpace(lastCall.req.rawDir) # <<>> /\ raw.kind = "dir"
\* the first raw file, in the order of the walk, with the entry's review key
UnderOwnKey(e, rawFiles) ==
    LET own == {n \in 1..Len(rawFiles) :
                  ReviewKeyOf(rawFiles[n])
                      = rawIndexReviewKey(e.locale, e.device, e.screenshotID)}
    IN  IF own = {} THEN <<>>
        ELSE rawFiles[CHOOSE n \in own : \A m \in own : n <= m]
\* the only raw file with the entry's screenshot id
CandidateFor(e, rawFiles) ==
    LET same == WithID(rawFiles, TrimSpace(e.screenshotID))
    IN  IF Cardinality(same) = 1 THEN rawFiles[CHOOSE n \in same : TRUE] ELSE <<>>
IsGeneric(rel) ==
    inferLocaleAndDevice(rel)[1] = <<>> /\ inferLocaleAndDevice(rel)[2] = <<>>
\* a segment conflicts when both values are non-empty and different
Conflict(a, b) == a # <<>> /\ b # <<>> /\ a # b
NoConflictAccepts(e, candidate) ==
    \/ IsGeneric(candidate)
    \/ /\ ~Conflict(e.locale, inferLocaleAndDevice(candidate)[1])
       /\ ~Conflict(e.device, inferLocaleAndDevice(candidate)[2])
\* each segment of the framed entry is empty or is the candidate's
AgreementAccepts(e, candidate) ==
    \/ e.locale = <<>> /\ e.device = <<>>
    \/ IsGeneric(candidate)
    \/ /\ e.locale = <<>> \/ e.locale = inferLocaleAndDevice(candidate)[1]
       /\ e.device = <<>> \/ e.device = inferLocaleAndDevice(candidate)[2]
RawMatchesBy(Accepts(_, _)) ==
    RawWasRead =>
        LET rawFiles == collectImageFiles(raw).files
        IN  \A n \in 1..Len(manifestFile.entries) :
              LET e == manifestFile.entries[n]
                  candidate == CandidateFor(e, rawFiles)
              IN  e.rawRelative
                    = IF UnderOwnKey(e, rawFiles) # <<>> THEN UnderOwnKey(e, rawFiles)
                      ELSE IF candidate # <<>> /\ Accepts(e, candidate) THEN candidate
                      ELSE <<>>

\* C25 as claimed: the candidate is accepted if and only if it is
\* locale/device-agnostic or neither its locale nor its device conflicts
\* with the framed entry's
C25_AcceptedUnlessConflict == RawMatchesBy(NoConflictAccepts)

\* C25 as the code has it: the candidate is accepted if and only if the
\* framed entry has neither locale nor device, or the candidate is
\* locale/device-agnostic, or each of the framed entry's locale and device
\* is empty or equal to the candidate's
C25_AcceptedOnAgreement == RawMatchesBy(AgreementAccepts)

\* one manifest with a framed file that took a candidate of another review
\* key and a framed file that refused the same candidate
C25_Witness ==
    /\ RawWasRead
    /\ \E n, m \in 1..Len(manifestFile.entries) :
          LET e == manifestFile.entries[n]
              o == manifestFile.entries[m]
              rawFiles == collectImageFiles(raw).files
          IN  /\ e.rawRelative # <<>>
              /\ ~IsGeneric(e.rawRelative)
              /\ UnderOwnKey(e, rawFiles) = <<>>
              /\ o.rawRelative = <<>>
              /\ CandidateFor(o, rawFiles) = e.rawRelative

----------------------------------------------------------------------------
\* C26: the review key identifies one review row: in every manifest
\* GenerateReview produces no two entries have the same key
\* locale|device|screenshotID.
C26_KeyIdentifiesRow ==
    manifestFile.kind = "manifest" =>
        \A n, m \in 1..Len(manifestFile.entries) :
            manifestFile.entries[n].key = manifestFile.entries[m].key => n = m

----------------------------------------------------------------------------
\* C27: in every manifest GenerateReview produces, an entry's approved flag
\* is true if and only if its key is in the ledger as loaded at the start of
\* that run, its approval state is "approved" exactly when the flag is true
\* and "pending" otherwise, and no other field of an entry depends on the
\* ledger or on the manifest and report of an earlier run: the other fields
\* are those of a run in an empty output directory without a ledger.
Unapproved(e) == [e EXCEPT !.approved = FALSE, !.approvalState = "pending"]

C27_ApprovedFromLedgerOnly ==
    [][(ReviewCall("generate") /\ lastCall'.err = NoErr) =>
        Let(generateReview(lastCall'.req, "ok", 0, NoManifest, NoHTML,
                           NoFile).manifestFile.entries, LAMBDA fresh :
        Let(ApprovedIn(ledger), LAMBDA loaded :
        LET es == manifestFile'.entries
        IN  /\ \A n \in 1..Len(es) :
                  /\ es[n].approved <=> es[n].key \in loaded
                  /\ es[n].approvalState
                        = IF es[n].approved THEN "approved" ELSE "pending"
            /\ Len(es) = Len(fresh)
            /\ \A n \in 1..Len(es) : Unapproved(es[n]) = fresh[n]))]_vars

\* a second call that wrote a manifest with an approved and a pending entry
C27_Witness ==
    /\ lastCall.op = "generate" /\ lastCall.err = NoErr
    /\ reviewCalls = 2
    /\ manifestFile.kind = "manifest"
    /\ \E n, m \in 1..Len(manifestFile.entries) :
          /\ manifestFile.entries[n].approved
          /\ manifestFile.entries[n].approvalState = "approved"
          /\ ~manifestFile.entries[m].approved
          /\ manifestFile.entries[m].approvalState = "pending"

----------------------------------------------------------------------------
\* C28: inferLocaleAndDevice on a relative path with 3 or more segments
\* returns the first two segments as (locale, device); with exactly 2
\* segments it returns (segment, empty) when the leading segment looks like
\* a locale and (empty, segment) otherwise; with fewer segments it returns
\* (empty, empty).  So en/iPhone_Air/home.png gives (en, iPhone_Air) and
\* iPhone_Air/home.png gives (empty, iPhone_Air).
C28_InferBySegments ==
    fpc = "inferLocaleAndDevice returned" =>
        LET segments == Split(farg, "/")
        IN  /\ Len(segments) >= 3 => fret = <<segments[1], segments[2]>>
            /\ Len(segments) = 2 =>
                  fret = IF looksLikeLocale(segments[1]) THEN <<segments[1], <<>>>>
                         ELSE <<<<>>, segments[1]>>
            /\ Len(segments) < 2 => fret = <<<<>>, <<>>>>
            /\ farg = <<"e","n","/","i","P","h","o","n","e","_","A","i","r","/","h","o","m","e",".","p","n","g">>
                  => fret = <<<<"e","n">>, <<"i","P","h","o","n","e","_","A","i","r">>>>
            /\ farg = <<"i","P","h","o","n","e","_","A","i","r","/","h","o","m","e",".","p","n","g">>
                  => fret = <<<<>>, <<"i","P","h","o","n","e","_","A","i","r">>>>

\* the call on fr-CA/home.png, whose leading segment is a locale
C28_Witness ==
    /\ fpc = "inferLocaleAndDevice returned"
    /\ farg = <<"f","r","-","C","A","/","h","o","m","e",".","p","n","g">>
    /\ fret = <<<<"f","r","-","C","A">>, <<>>>>

----------------------------------------------------------------------------
\* the groups of a token: what stands between its hyphens and underscores
GroupsOf(token) == Split(ReplaceAll(token, "_", "-"), "-")
AllLetters(group) == \A k \in 1..Len(group) : IsLetter(group[k])

\* C29 as claimed: looksLikeLocale accepts a token if and only if it
\* consists of 1 to 3 groups separated by hyphens or underscores, every
\* group is non-empty and purely alphabetic, the first group has 2 to 3
\* letters and each subsequent group has at most 8 letters.
C29_LocaleShape ==
    fpc = "looksLikeLocale returned" =>
        (fret <=>
            LET groups == GroupsOf(farg)
            IN  /\ Len(groups) \in 1..3
                /\ \A n \in 1..Len(groups) :
                      /\ groups[n] # <<>>
                      /\ AllLetters(groups[n])
                      /\ n = 1 => Len(groups[n]) \in 2..3
                      /\ n > 1 => Len(groups[n]) <= 8)

\* C29 as the code has it: looksLikeLocale accepts a token if and only if,
\* without the white space around it, it consists of 1 to 3 groups
\* separated by hyphens or underscores, every group is purely alphabetic,
\* the first group is 2 to 3 bytes long and each subsequent group is 2 to
\* 8 bytes long.
C29_TrimmedLocaleShape ==
    fpc = "looksLikeLocale returned" =>
        (fret <=>
            LET groups == GroupsOf(TrimSpace(farg))
            IN  /\ Len(groups) \in 1..3
                /\ \A n \in 1..Len(groups) :
                      /\ AllLetters(groups[n])
                      /\ n = 1 => ByteLen(groups[n]) \in 2..3
                      /\ n > 1 => ByteLen(groups[n]) \in 2..8)

\* an accepted token of three groups with both separators
C29_Witness ==
    /\ fpc = "looksLikeLocale returned"
    /\ farg = <<"z","h","-","H","a","n","s","_","C","N">>
    /\ fret = TRUE

----------------------------------------------------------------------------
\* C30: the file-change classifier reports an event as relevant exactly
\* when it is a create or write of the config file or a create or write of
\* a file with an image extension under a tracked asset directory; a remove
\* event is never relevant, even for the config file, and a file with an
\* unrelated extension is never relevant.
ImageExtensions ==
    {<<".","p","n","g">>, <<".","j","p","g">>, <<".","j","p","e","g">>, <<".","w","e","b","p">>}
TrackedImage(event) ==
    /\ ToLower(Ext(event.name)) \in ImageExtensions
    /\ \E n \in 1..Len(event.assetDirs) :
          \E rest \in {SubSeq(event.name, k, Len(event.name)) : k \in 1..Len(event.name)} :
             event.name = event.assetDirs[n] \o <<"/">> \o rest

C30_RelevantChange ==
    fpc = "isRelevantChange returned" =>
        /\ fret <=> /\ farg.op \in {"Create", "Write"}
                    /\ farg.name = farg.configPath \/ TrackedImage(farg)
        /\ farg.op = "Remove" => ~fret
        /\ (farg.name # farg.configPath /\ ToLower(Ext(farg.name)) \notin ImageExtensions)
              => ~fret

\* the create of a PNG in a tracked directory, found relevant
C30_Witness ==
    /\ fpc = "isRelevantChange returned"
    /\ farg = ChangeEvent(<<"/","p","r","o","j","e","c","t","s","/","s","c","r","e","e","n","s","h","o","t","s","/","r","a","w","/","h","o","m","e",".","p","n","g">>,
                          "Create", ConfigPath, <<AssetDirRaw>>)
    /\ fret = TRUE

----------------------------------------------------------------------------
\* C31: the inter-step delay is slept after a step if and only if the step
\* succeeded, the configured delay is positive and the action is neither
\* wait nor wait_for; it is slept after the last step of the plan as well,
\* never after a failed step, and nowhere but after a step.
DelaySleep == pc = "sleep" /\ site = "delay"

C31_DelayAfterSuccessOnly ==
    [][/\ (pc = "ret" /\ pc' # "ret") =>
            /\ DelaySleep' <=> (herr = NoErr /\ DelayApplies(i))
            /\ DelaySleep' => timer' = plan.delay /\ i' = i
            /\ herr # NoErr => pc' = "done"
       /\ (DelaySleep' /\ ~DelaySleep) => pc = "ret"]_vars

\* the delay being slept after the last step of a plan of several steps
C31_Witness ==
    /\ DelaySleep
    /\ Len(plan.steps) >= 2 /\ i = Len(plan.steps)
    /\ result.steps[i].status = "ok"
    /\ timer = plan.delay

\* C32: every tap step that was started made one tap call and no other: the
\* process it ran, if any, is a single `axe tap` whose selector is the label
\* when the label is set, else the id when the id is set, else the
\* coordinates; the step ran no process only when ctx was already cancelled
\* and the call was refused; and when the call failed the step is recorded as
\* an error, is the last step, and no further process was run.
TapSelector(step) ==
    IF step.label # <<>> /\ TrimSpace(step.label[1]) # <<>>
    THEN <<"--label", step.label[1]>>
    ELSE IF step.id # <<>> /\ TrimSpace(step.id[1]) # <<>>
    THEN <<"--id", step.id[1]>>
    ELSE <<"-x", <<>> >>
TapFailed(k) == k <= Len(result.steps) /\ result.steps[k].status = "error"
C32_OneStaticTapCall ==
    \A k \in StepsWithAction(ActionTap, started) :
       /\ Cardinality(CallsOfStep(k)) <= 1
       /\ \A c \in CallsOfStep(k) :
             /\ calls[c].op = "tap"
             /\ <<calls[c].flag, calls[c].arg>> = TapSelector(plan.steps[k])
       /\ CallsOfStep(k) = {} =>
             /\ cancelled
             /\ \/ k = started /\ pc = "ret" /\ herr = CmdErr("axe", CanceledErr)
                \/ TapFailed(k)
       /\ (k <= Len(result.steps) /\ result.steps[k].status = "ok") =>
             Cardinality(CallsOfStep(k)) = 1
       /\ (k = started /\ pc = "ret" /\ herr # NoErr) =>
             \A c \in 1..Len(calls) : calls[c].step <= k
       /\ TapFailed(k) =>
             /\ k = Len(result.steps) /\ k = started /\ pc = "done"
             /\ \A c \in 1..Len(calls) : calls[c].step <= k

C32_Witness ==
    /\ pc = "done" /\ TapFailed(1)
    /\ Len(plan.steps) = 2
    /\ plan.steps[1].label = <<OkText>> /\ plan.steps[1].id = <<HomeText>>
    /\ Len(calls) = 1 /\ calls[1].flag = "--label"
    /\ ~cancelled

\* C33: Capture runs `xcrun simctl launch` exactly when the trimmed bundle id
\* of the request is not empty (unless ctx is already cancelled and the launch
\* is refused); a launch is always the first process and comes before the
\* screenshot; when the launch failed Capture returns its error and no
\* screenshot was run; and Capture returns nil only after one screenshot
\* process that left the file in place.
CaptureReq == farg[1]
CaptureReturned == pc = "ret"
C33_LaunchThenScreenshot ==
    /\ CallsWithOp("launch") # {} => TrimSpace(CaptureReq.bundleID) # <<>>
    /\ (TrimSpace(CaptureReq.bundleID) # <<>> /\ pc # "Capture") =>
          \/ /\ calls # <<>> /\ calls[1].op = "launch"
             /\ calls[1].arg = TrimSpace(CaptureReq.bundleID)
          \/ /\ calls = <<>> /\ cancelled /\ CaptureReturned
             /\ herr = CmdErr("xcrun", CanceledErr)
    /\ Cardinality(CallsWithOp("launch")) <= 1
    /\ Cardinality(CallsWithOp("screenshot")) <= 1
    /\ \A c \in CallsWithOp("screenshot") :
          TrimSpace(CaptureReq.bundleID) # <<>> =>
             \E l \in CallsWithOp("launch") : l < c
    /\ (CaptureReturned /\ herr # NoErr /\ herr[1].cmd = "xcrun") =>
          CallsWithOp("screenshot") = {}
    /\ (CaptureReturned /\ CallsWithOp("screenshot") = {}) => herr # NoErr
    /\ (CaptureReturned /\ herr = NoErr) =>
          /\ Cardinality(CallsWithOp("screenshot")) = 1
          /\ lastOutcome = "written"

C33_Witness ==
    /\ CaptureReturned /\ herr = NoErr
    /\ CaptureReq.bundleID = <<" ">> \o BundleID
    /\ Len(calls) = 2 /\ calls[1].op = "launch" /\ calls[1].arg = BundleID
    /\ calls[2].op = "screenshot"
    /\ lastOutcome = "written"

----------------------------------------------------------------------------
\* C34: in every manifest GenerateReview produces, the summary agrees with
\* the entries: total is their number, approved and pendingApproval add up to
\* total, ready counts the ready entries, missingRaw the entries whose status
\* is missing_raw or missing_raw_invalid_size, invalidSize the entries whose
\* status is invalid_size or missing_raw_invalid_size, so that ready +
\* missingRaw + invalidSize exceeds total by the number of
\* missing_raw_invalid_size entries.
WithStatus(es, statuses) == {n \in 1..Len(es) : es[n].status \in statuses}
C34_SummaryConsistent ==
    manifestFile.kind = "manifest" =>
        LET es == manifestFile.entries
            sm == manifestFile.summary
            both == WithStatus(es, {StatusFor(FALSE, FALSE)})
        IN  /\ sm.total = Len(es)
            /\ sm.approved + sm.pendingApproval = sm.total
            /\ sm.approved = Cardinality({n \in 1..Len(es) : es[n].approved})
            /\ sm.ready = Cardinality(WithStatus(es, {StatusFor(TRUE, TRUE)}))
            /\ sm.missingRaw =
                  Cardinality(WithStatus(es, {StatusFor(FALSE, TRUE), StatusFor(FALSE, FALSE)}))
            /\ sm.invalidSize =
                  Cardinality(WithStatus(es, {StatusFor(TRUE, FALSE), StatusFor(FALSE, FALSE)}))
            /\ sm.ready + sm.missingRaw + sm.invalidSize = sm.total + Cardinality(both)

\* a manifest with an approved ready entry and a missing_raw_invalid_size one
C34_Witness ==
    /\ manifestFile.kind = "manifest"
    /\ lastCall.op = "generate"
    /\ manifestFile.summary.total = 2
    /\ manifestFile.summary.approved = 1
    /\ manifestFile.summary.ready = 1
    /\ manifestFile.summary.missingRaw = 1 /\ manifestFile.summary.invalidSize = 1

----------------------------------------------------------------------------
\* C35: a successful GenerateReview writes one entry for each file of the
\* framed tree whose extension is png, jpg, jpeg or webp in any case and none
\* for another file, in strictly ascending order of the framed path; and a
\* second successful call with the same request over the same trees and
\* ledger writes the same entries as the first.
ImageExtensionsFold ==
    {<<".","p","n","g">>, <<".","j","p","g">>, <<".","j","p","e","g">>, <<".","w","e","b","p">>}
FramedImages(dir) == {f.rel : f \in {g \in dir.files : ToLower(Ext(g.rel)) \in ImageExtensionsFold}}
FramedPathOf(e) == FramedDirPath \o <<"/">> \o e.framedRelative
----------------------------------------------------------------------------
\* C36: a RunResult that is not nil holds the results of steps 1..m in order,
\* m at most the number of steps, and a step of RunPlan only ever appends one
\* result; every result but the last is ok; when RunPlan returns nil all N
\* steps are recorded ok; when a handler failed the last result is the only
\* error; and when ctx ends the post-action delay RunPlan returns an error
\* without a "step n (action)" layer and every recorded result is ok.
AllOk(steps) == \A j \in 1..Len(steps) : steps[j].status = "ok"
DelayInterrupted == pc = "done" /\ site = "delay" /\ woken = "ctx"
ResultShape ==
    ~result.nil =>
        LET m == Len(result.steps) IN
        /\ m <= Len(plan.steps)
        /\ \A j \in 1..m :
              /\ result.steps[j].index = j
              /\ result.steps[j].status \in {"ok", "error"}
        /\ \A j \in 1..(m - 1) : result.steps[j].status = "ok"
        /\ (pc = "done" /\ retErr = NoErr) => (m = Len(plan.steps) /\ AllOk(result.steps))
        /\ (pc = "done" /\ herr # NoErr) => (m >= 1 /\ result.steps[m].status = "error")
        /\ DelayInterrupted =>
              /\ retErr # NoErr /\ IsCancel(retErr)
              /\ \A k \in 1..Len(retErr) : retErr[k].kind # "step"
              /\ m >= 1 /\ AllOk(result.steps)
C36_ResultShape ==
    [][/\ ResultShape'
       /\ ~result.nil =>
             /\ ~result'.nil
             /\ \/ result'.steps = result.steps
                \/ \E r \in {result'.steps[Len(result'.steps)]} :
                      result'.steps = Append(result.steps, r)]_vars

C36_Witness ==
    /\ DelayInterrupted
    /\ Len(plan.steps) = 3 /\ Len(result.steps) = 2
    /\ retErr = CanceledErr

----------------------------------------------------------------------------
\* C37: the wait_for handler starts with a poll, whatever its timeout (the
\* poll is refused only when ctx is already cancelled); a poll that found the
\* target makes the handler return nil, also when the deadline has passed by
\* then; and the timeout error is returned only by the step that ends a poll,
\* when that poll found no target and the time after it is past the deadline.
PollReturns == pc = "exec" /\ site = "describe-ui" /\ pc' # "exec"
WaitForStarts == pc = "loop" /\ started' = started + 1
PollFirst ==
    (InWaitFor /\ WaitForStarts) =>
        \/ /\ pc' = "exec" /\ site' = "describe-ui"
           /\ calls' = Append(calls, calls'[Len(calls')])
           /\ calls'[Len(calls')].op = "describe-ui"
        \/ cancelled /\ pc' = "ret" /\ herr' = CmdErr("axe", CanceledErr)
MatchBeforeDeadline ==
    (PollReturns /\ lastOutcome' = "match") => (pc' = "ret" /\ herr' = NoErr)
TimeoutAfterMiss ==
    (InWaitFor /\ pc # "ret" /\ pc' = "ret" /\ IsTimeout(herr')) =>
        /\ PollReturns
        /\ lastOutcome' = "miss"
        /\ elapsed' > deadline
        /\ deadline = EffectiveTimeout(plan.steps[i])
C37_MatchTestFirst ==
    [][PollFirst /\ MatchBeforeDeadline /\ TimeoutAfterMiss]_vars

\* a poll that found the target after the deadline: the step succeeds
C37_Witness ==
    /\ InWaitFor /\ pc = "ret" /\ herr = NoErr
    /\ lastOutcome = "match"
    /\ elapsed > deadline
    /\ lastPoll > 0

----------------------------------------------------------------------------
\* C38: in every GenerateReview or ApproveReview call the set of approved
\* keys read from the ledger file keeps every key it had, and it differs
\* after the call only when the call was an ApproveReview that returned nil.
C38_LedgerGrowsOnlyByApprove ==
    [][/\ ApprovedIn(ledger) \subseteq ApprovedIn(ledger')
       /\ ApprovedIn(ledger') # ApprovedIn(ledger) =>
             (ReviewCall("approve") /\ lastCall'.err = NoErr)]_vars

----------------------------------------------------------------------------
\* C39: for every map, the approved array SaveApprovals writes holds exactly
\* the trimmed keys whose value is true (a key that trims to nothing is left
\* out) and is strictly ascending, so no key is written twice.
SaveReturnedNil == fpc = "SaveApprovals returned" /\ fret.err = NoErr
C39_CanonicalLedger ==
    SaveReturnedNil =>
        LET written == fret.file.list IN
        /\ fret.file.kind = "wrapped"
        /\ {written[n] : n \in 1..Len(written)}
              = {TrimSpace(k) : k \in ApprovedKeys(farg)} \ {<<>>}
        /\ \A n \in 1..(Len(written) - 1) : Less(written[n], written[n + 1])

----------------------------------------------------------------------------
\* C40: f has been started at most as often as Trigger has been called, and
\* whenever no thread is inside Trigger the pending marker is clear.
C40_CoalescerAccounting ==
    /\ runCount <= triggers
    /\ Quiescent => ~pending

====
